---- MODULE Spec2Model ----
(***************************************************************************)
(* PowerPoint Karaoke: the prefetch / cache pipeline, the presentation     *)
(* language resolver and the two export orchestrators, as a state machine. *)
(*                                                                         *)
(* React semantics used throughout: a handler or an async function reads   *)
(* the props and state of the render that created it (a closure), so every *)
(* value it reads after an await is the value of that render; a state      *)
(* setter called with an updater function (prev => ...) is applied to the  *)
(* latest state.  Closure values are therefore stored in the record of the *)
(* task when the task starts.                                              *)
(***************************************************************************)
EXTENDS Integers, Sequences, FiniteSets, TLC

(* ------------------------------ bounds -------------------------------- *)
MaxPages == 2            \* largest page count of a document (Spec)
MaxClicks == 2           \* uploads, page changes, Generate and Export clicks of a session
MaxExportPages == 5      \* largest page count of a document (SpecExport)
MaxDutchWords == 4       \* most Dutch words of a classified text (SpecLanguage)
MaxOtherWords == 12      \* most other words of a classified text (SpecLanguage)
MaxSamples == 3          \* longest list of scripts given to the detection (SpecLanguage)

Pages == 1..(IF MaxPages > MaxExportPages THEN MaxPages ELSE MaxExportPages)

(* ------------------------------ values -------------------------------- *)
\* null of 'dutch' | 'english' | null
null == "null"

\* A script is the sequence of its lower-cased, whitespace-separated words;
\* the empty script '' is the empty sequence.
DutchScript == <<"de", "het", "een">>
EnglishScript == <<"the", "slide">>
EmptyScript == <<>>
ScriptTexts == {DutchScript, EnglishScript}

\* Slide content: extracted text or one of the markers the interactive
\* extractor resolves with; '' is the empty content.
SlideContent == "text"
ErrorMarker == "[Error: 500]"
\* the marker the extractor of the ZIP export resolves with after an exception
ZipErrorMarker == "[Error]"

\* An audio asset is named by the synthesizer that produced it.
NoAudio == ""

EmptyCache == [p \in Pages |-> ""]
EmptyScripts == [p \in Pages |-> EmptyScript]

\* Record<number,string> update: { ...prev, [k]: v }
Put(cache, k, v) == [cache EXCEPT ![k] = v]

\* JavaScript truthiness of a content or audio string, and of a script
Truthy(v) == v # ""
HasText(script) == script # <<>>

\* String.includes('[Error')
IncludesError(c) == c \in {ErrorMarker, ZipErrorMarker}

Min(a, b) == IF a < b THEN a ELSE b

(* ------------------------- language detection ------------------------- *)
dutchWords ==
  {"de", "het", "een", "van", "in", "op", "voor", "met", "aan", "dat", "dit",
   "zijn", "worden", "hebben", "kunnen", "moeten", "willen", "gaan", "maken",
   "deze", "zoals", "maar", "ook", "niet", "naar", "door", "over", "om",
   "bij", "uit", "meer", "andere", "alle", "veel", "nog", "wel",
   "bijvoorbeeld", "namelijk", "waarom", "hoe", "wanneer", "waar", "wie",
   "wordt", "werd", "waren", "was", "bent", "had", "hadden"}

\* A text is the sequence of its pieces between runs of whitespace; leading
\* or trailing whitespace leaves an empty piece at that end, as split(/\s+/)
\* does.  text.toLowerCase().split(/\s+/): '' splits into one empty word
SplitWords(text) == IF text = <<>> THEN <<"">> ELSE text

\* String.toLowerCase() on the word forms of this model
ToLowerCase(word) == IF word = "De" THEN "de" ELSE word

\* word.replace(/[.,!?;:]$/, ''): one punctuation mark at the end is removed
StripPunctuation(word) ==
  CASE word = "het." -> "het"
    [] word = "een?!" -> "een?"
    [] OTHER -> word

isDutchText(text) ==
  LET words == SplitWords(text)
      dutchWordCount ==
        Cardinality({i \in DOMAIN words :
                       StripPunctuation(ToLowerCase(words[i])) \in dutchWords})
  IN  \* dutchWordCount >= words.length * 0.2 && dutchWordCount >= 3
      dutchWordCount * 5 >= Len(words) /\ dutchWordCount >= 3

\* !script || !script.trim(): '' or nothing but whitespace
IsBlank(script) == \A i \in DOMAIN script : script[i] = ""

RECURSIVE CountScripts(_, _)
\* the forEach of detectPresentationLanguage: number of non-blank scripts
\* whose isDutchText verdict is `verdict`
CountScripts(scripts, verdict) ==
  IF scripts = <<>> THEN 0
  ELSE (IF ~IsBlank(Head(scripts)) /\ isDutchText(Head(scripts)) = verdict
        THEN 1 ELSE 0) + CountScripts(Tail(scripts), verdict)

\* variant: a tie between Dutch and English scripts gives Dutch
detectPresentationLanguage_TieIsDutch(scripts) ==
  IF Len(scripts) = 0 THEN "dutch"
  ELSE IF CountScripts(scripts, TRUE) >= CountScripts(scripts, FALSE)
       THEN "dutch" ELSE "english"

detectPresentationLanguage(scripts) ==
  IF Len(scripts) = 0 THEN "dutch"
  ELSE IF CountScripts(scripts, TRUE) > CountScripts(scripts, FALSE)
       THEN "dutch" ELSE "english"

getSlidesToAnalyze(totalSlides) == Min(totalSlides, 3)

(* ------------------------------- state -------------------------------- *)
VARIABLES
  \* App.tsx useState
  pdfFile,               \* "null" or "file"
  currentPage,
  totalPages,
  generatedScript,
  presentationContext,
  scriptHistory,
  isExporting,
  presentationLanguage,
  contentCache,
  scriptCache,
  audioCache,
  \* SlideViewer: a document load (loadPdf) is in flight
  loading,
  \* ControlPanel useState
  isGenerating,
  \* ScriptDisplay useState / useRef
  slideText,
  isExtracting,
  scriptsForAnalysis,
  \* async work in flight
  extractions,           \* extractContent() calls of the current-slide effect
  timers,                \* pending 50 ms timers of handlePageChange
  contentPrefetch,       \* next-slide content prefetches of extractContent()
  gen,                   \* the generateVoiceover() call
  tasks,                 \* prefetchUpcomingSlides() calls
  vx,                    \* ExportVideo.handleExport()
  zx,                    \* ExportVideoSimple.handleExport()
  playback,              \* AudioControls: the autoplay timer and generateAndPlayAudio()
  unreleased,            \* audio blob URLs dropped from audioCache and never revoked
  spoken,                \* per slide, the text the audio in audioCache was synthesized from
  \* the user
  clicks,                \* uploads, page changes, Generate and Export clicks so far
  \* one call of a helper of ExportVideo seen from inside
  retry,                 \* retryWithBackoff(fn) and the calls of fn it makes
  \* one call of the language detection seen from inside
  detection,             \* detectPresentationLanguage(scripts) and its isDutchText calls
  narrative              \* the previousContext a script request is built with

appVars == <<pdfFile, currentPage, totalPages, generatedScript, presentationContext,
             scriptHistory, isExporting, presentationLanguage, contentCache,
             scriptCache, audioCache, loading>>
uiVars == <<isGenerating, slideText, isExtracting, scriptsForAnalysis>>
workVars == <<extractions, timers, contentPrefetch, gen, tasks, vx, zx>>
vars == <<appVars, uiVars, workVars, playback, unreleased, spoken, clicks, retry, detection, narrative>>

\* results the interactive extractor (ScriptDisplay.extractContentForPage)
\* resolves with; it never rejects
InteractiveExtractResults == {SlideContent, ErrorMarker}

\* what the ContentModel answers for slide p: it narrates a slide in the
\* language of the slide; the documents of this model have an English title
\* slide followed by Dutch slides
ScriptAnswers(p) == {IF p = 1 THEN EnglishScript ELSE DutchScript}

(* --------------------- generateVoiceover (closure) -------------------- *)
\* no alert() of generateVoiceover on the screen
NoGenAlert == [text |-> "", error |-> ""]

IdleGen == [pc |-> "idle", page |-> 0, langNull |-> FALSE, total |-> 0,
            ctxEmpty |-> FALSE, script |-> EmptyScript, stale |-> FALSE,
            ref |-> <<>>, alert |-> NoGenAlert]

\* error.message of what the try block of generateVoiceover throws: the
\* error it builds for a non-200 script response, and the error of a fetch
\* that failed
ResponseError == "Azure OpenAI API error: status"
TransportError == "Failed to fetch"
GenErrors == {ResponseError, TransportError}

\* alert(`Failed to generate voiceover: ${errorMsg}...`) of the catch block
GenAlert(error) == [text |-> "Failed to generate voiceover", error |-> error]

\* the values generateVoiceover reads from the render that created it
NewGen(cp, pl, tp, ctx) ==
  [pc |-> "script", page |-> cp, langNull |-> (pl = null), total |-> tp,
   ctxEmpty |-> (ctx = ""), script |-> EmptyScript, stale |-> FALSE, ref |-> <<>>,
   alert |-> NoGenAlert]

\* the guard of generateVoiceover on slideText
TextUsable(st) == Truthy(st) /\ ~IncludesError(st)

\* condition of the auto-generate effect (autoGenerateTrigger > 0 holds from
\* the first upload on)
AutoGenCond(st, extracting, generating, gs) ==
  TextUsable(st) /\ ~extracting /\ ~generating /\ ~HasText(gs)

\* an extractContent() call of the current-slide effect, with the values its
\* 100 ms timer reads from the render that created it
NewExtraction(cp, tp, cc, exporting) ==
  [page |-> cp, stale |-> FALSE,
   prefetchNext |-> ~exporting /\ cp < tp /\ ~Truthy(cc[IF cp < tp THEN cp + 1 ELSE cp])]

\* prefetchTimeoutRef after extractContent() set its timer: the pending timer
\* of the same ScriptDisplay instance is cleared, a timer that will prefetch
\* the content of the next slide is kept
SetPrefetchTimeout(cps, e) ==
  {r \in cps : ~(r.pc = "timer" /\ r.stale = e.stale)}
  \cup (IF e.prefetchNext
        THEN {[pc |-> "timer", page |-> e.page + 1, stale |-> e.stale]} ELSE {})

(* ------------------------- prefetch effect ---------------------------- *)
\* the next slide to prefetch, or no slide at all: prefetchNextScript returns
\* early for a slide whose cached content carries an error marker
RECURSIVE NextTarget(_, _)
NextTarget(task, targets) ==
  IF targets = <<>> THEN [task EXCEPT !.pc = "done", !.targets = <<>>]
  ELSE LET t == Head(targets)
           c == task.contentSnap[t]
       IN IF ~Truthy(c)
          THEN [task EXCEPT !.pc = "content", !.targets = targets]
          ELSE IF IncludesError(c)
               THEN NextTarget(task, Tail(targets))
               ELSE [task EXCEPT !.pc = "script", !.targets = targets,
                                 !.nextContent = c]

\* variant: slidesToPrefetch without its filter page <= totalPages
PrefetchTargets_Unfiltered(cp, tp, sc) ==
  SelectSeq(<<cp + 1, cp + 2>>, LAMBDA p : ~HasText(sc[p]))

\* slidesToPrefetch without the slides whose script is cached in this render
PrefetchTargets(cp, tp, sc) ==
  SelectSeq(<<cp + 1, cp + 2>>, LAMBDA p : p <= tp /\ ~HasText(sc[p]))

\* the prefetch effect of one render; returns the set of tasks it starts
PrefetchEffect(gs, cp, tp, exporting, file, sc, cc, ac, pl) ==
  IF exporting \/ ~HasText(gs) \/ file = "null" \/ cp >= tp THEN {}
  ELSE LET targets == PrefetchTargets(cp, tp, sc)
           inTargets(p) == \E i \in DOMAIN targets : targets[i] = p
           task == [pc |-> "new", cur |-> cp, total |-> tp, targets |-> targets,
                    exporting |-> exporting, lang |-> pl,
                    contentSnap |-> [p \in Pages |-> IF inTargets(p) THEN cc[p] ELSE ""],
                    audioSnap |-> [p \in Pages |-> IF inTargets(p) THEN ac[p] ELSE ""],
                    nextContent |-> "", nextScript |-> EmptyScript, isDutch |-> FALSE]
           started == NextTarget(task, targets)
       IN IF started.pc = "done" THEN {} ELSE {started}

\* tasks after an effect run
WithPrefetch(ts, new) == ts \cup new

\* a task that moved on: dropped when it has no slide left
Continue(ts, old, new) == (ts \ {old}) \cup (IF new.pc = "done" THEN {} ELSE {new})

(* --------------------------- AudioControls ---------------------------- *)
\* setAudioCache(prev => ({ ...prev, [page]: audioUrl })): the blob URL that
\* prev held for the page is dropped; no writer calls URL.revokeObjectURL on it
Dropped(ac, page) == IF Truthy(ac[page]) THEN 1 ELSE 0

\* the synthesizer of AudioControls.generateAudio: Deepgram aura-2-hermes-en
PlaybackVoice == "english"

\* AudioControls without a timer or a request; triggered is
\* autoPlayTrigger > 0 of ControlPanel
\* aborted: abortControllerRef.current.abort() reached a request in flight
IdlePlayback ==
  [pc |-> "idle", triggered |-> FALSE, page |-> 0, script |-> EmptyScript,
   cached |-> NoAudio, aborted |-> FALSE]

\* variant: the request of generateAudio outlives the unmount
Unmount_KeepsRequest(pb) == pb

\* generatedScript became '': AudioControls unmounts, its cleanups clear the
\* autoplay timer and abort the request of generateAudio
Unmount(pb) ==
  [IdlePlayback EXCEPT !.triggered = pb.triggered,
                       !.aborted = pb.aborted \/ pb.pc = "fetch"]

\* the autoplay effect of a render with the given script: a 300 ms timer
\* whose generateAndPlayAudio reads currentPage and audioCache of that render
AutoPlayEffect(pb, script, cp, ac) ==
  IF pb.triggered /\ HasText(script) /\ pb.pc # "fetch"
  THEN [pc |-> "timer", triggered |-> TRUE, page |-> cp, script |-> script,
        cached |-> ac[cp], aborted |-> FALSE]
  ELSE pb

(* ------------------------------ exports ------------------------------- *)
\* the locals and the closure of a handleExport() call; slideData and
\* failedSlides hold slide indices, alert what the final alert() shows
NoAlert == [text |-> "", included |-> 0, skipped |-> <<>>]

IdleExport ==
  [pc |-> "idle", pageNum |-> 0, total |-> 0, lang |-> null,
   contentSnap |-> EmptyCache, scriptSnap |-> EmptyScripts, audioSnap |-> EmptyCache,
   exportLanguage |-> "dutch", slideData |-> <<>>, failedSlides |-> <<>>,
   content |-> "", script |-> EmptyScript, alert |-> NoAlert,
   exporting |-> FALSE]

NoSlidesProcessed == "Export failed: No slides could be processed"
EncodingFailed == "Export failed: encoder error"
Exported == "exported successfully"

\* alert(`Export failed: ${error.message}`) of the outer catch block
Failure(message) == [text |-> message, included |-> 0, skipped |-> <<>>]

\* the alert after the download of the video: 'Included: n / Skipped: k (...)'
\* when slides failed, 'All N slides included' otherwise
VideoReport(x) ==
  [text |-> Exported,
   included |-> IF Len(x.failedSlides) > 0 THEN Len(x.slideData) ELSE x.total,
   skipped |-> x.failedSlides]

\* the alert after the download of the ZIP file
ZipReport(x) ==
  [text |-> Exported, included |-> x.total - Len(x.failedSlides),
   skipped |-> x.failedSlides]

\* pcs at which a handleExport() call is between its first and its last line
ExportRunning == {"wait", "extract", "sleep1", "script", "sleep2", "audioFetch",
                  "synth", "render", "delay", "mux", "pack"}
\* pcs of a handleExport() call that is not running
ExportReturned == {"idle", "done", "failed"}
\* pcs inside the slide loop
ExportInLoop == ExportRunning \ {"wait", "mux", "pack"}

\* a handleExport() call that returned: only its result is kept
Returned(x, pc, alert) ==
  [IdleExport EXCEPT !.pc = pc, !.alert = alert, !.total = x.total,
                     !.slideData = x.slideData, !.failedSlides = x.failedSlides,
                     !.exporting = x.exporting]

\* the prefetch effect of ScriptDisplay has isExporting among its
\* dependencies: it runs again in the render in which the flag changed
FlagEffect(flag) ==
  IF flag = isExporting THEN tasks
  ELSE WithPrefetch(tasks,
          PrefetchEffect(generatedScript, currentPage, totalPages, flag, pdfFile,
                         scriptCache, contentCache, audioCache, presentationLanguage))

\* the full-screen overlay of a running export (fixed inset-0 z-50) covers
\* the upload area, the navigation and every button but its own Cancel
OverlayShown == isExporting \/ zx.exporting

(* -------------------------- retryWithBackoff -------------------------- *)
maxRetries == 5
baseDelay == 2000

\* the helpers of ExportVideo whose body runs inside retryWithBackoff
RetriedHelpers == {"extractContentForPage", "generateScriptForSlide",
                   "generateAudioForScript"}

\* the errors the body of a helper throws (or rejects with):
\*   "transport"     fetch threw or the response was not ok
\*   "notConfigured" a key, or the voice id, of the service is missing
\*   "filtered"      content filtered and no text in the PDF page to fall back on
\*   "empty"         no content, or no script, in the answer of the model
ConfigErrors == {"notConfigured"}
SemanticErrors == {"filtered", "empty"}

\* what one call of the body can throw; the keys are read at every call, and
\* a body that finds one missing throws before it sends anything
Throws(fn, configured) ==
  IF ~configured THEN ConfigErrors
  ELSE CASE fn = "extractContentForPage" -> {"transport", "filtered", "empty"}
         [] fn = "generateScriptForSlide" -> {"transport", "empty"}
         [] fn = "generateAudioForScript" -> {"transport"}

\* no retryWithBackoff call under study
IdleRetry ==
  [pc |-> "idle", fn |-> "", configured |-> TRUE, attempt |-> 0, calls |-> 0,
   thrown |-> <<>>, delays |-> <<>>, delay |-> 0, result |-> <<>>]

\* retryWithBackoff(fn) entered: for (let attempt = 0; ...)
NewRetry(fn, configured) ==
  [IdleRetry EXCEPT !.pc = "call", !.fn = fn, !.configured = configured]

\* a delay that would grow linearly: baseDelay * (attempt + 1)
BackoffDelay_Linear(attempt) == baseDelay * (attempt + 1)

\* baseDelay * Math.pow(2, attempt)
BackoffDelay(attempt) == baseDelay * 2 ^ attempt

\* await fn() resolved: return its value
RetryCallReturned ==
  /\ retry.pc = "call" /\ retry.attempt < maxRetries /\ retry.configured
  /\ retry' = [retry EXCEPT !.pc = "returned", !.calls = @ + 1,
                            !.result = <<"value", retry.calls + 1>>]
  /\ UNCHANGED <<appVars, uiVars, workVars, playback, unreleased, spoken, clicks, detection, narrative>>

\* await fn() threw: the catch block rethrows after the last attempt and
\* sleeps otherwise; an error is named by its kind and the call that threw it
RetryCallThrew(kind) ==
  /\ retry.pc = "call" /\ retry.attempt < maxRetries
  /\ kind \in Throws(retry.fn, retry.configured)
  /\ LET error == <<kind, retry.calls + 1>>
         r == [retry EXCEPT !.calls = @ + 1, !.thrown = Append(@, error)]
     IN retry' = IF retry.attempt = maxRetries - 1
                 THEN [r EXCEPT !.pc = "threw", !.result = error]
                 ELSE [r EXCEPT !.pc = "sleep", !.delay = BackoffDelay(retry.attempt)]
  /\ UNCHANGED <<appVars, uiVars, workVars, playback, unreleased, spoken, clicks, detection, narrative>>

\* await sleep(delay) elapsed: attempt++
RetrySleepDone ==
  /\ retry.pc = "sleep"
  /\ retry' = [retry EXCEPT !.pc = "call", !.attempt = @ + 1,
                            !.delays = Append(@, retry.delay), !.delay = 0]
  /\ UNCHANGED <<appVars, uiVars, workVars, playback, unreleased, spoken, clicks, detection, narrative>>

(* ------------------------------- Init --------------------------------- *)
\* the application after its first render
FreshApp ==
  /\ pdfFile = "null"
  /\ currentPage = 1
  /\ totalPages = 0
  /\ generatedScript = EmptyScript
  /\ presentationContext = ""
  /\ scriptHistory = EmptyScripts
  /\ isExporting = FALSE
  /\ presentationLanguage = null
  /\ contentCache = EmptyCache
  /\ scriptCache = EmptyScripts
  /\ audioCache = EmptyCache
  /\ loading = FALSE
  /\ isGenerating = FALSE
  /\ slideText = ""
  /\ isExtracting = FALSE
  /\ scriptsForAnalysis = <<>>
  /\ extractions = {}
  /\ timers = {}
  /\ contentPrefetch = {}
  /\ gen = IdleGen
  /\ tasks = {}
  /\ vx = IdleExport
  /\ zx = IdleExport
  /\ clicks = 0
  /\ playback = IdlePlayback
  /\ unreleased = 0
  /\ spoken = EmptyScripts

\* no detectPresentationLanguage call under study
IdleDetection ==
  [pc |-> "idle", scripts |-> <<>>, isDutch |-> <<>>, language |-> null,
   prefetch |-> <<>>, zip |-> <<>>]

\* no script request is being put together
IdleNarrative ==
  [pc |-> "idle", kind |-> "", history |-> EmptyScripts, current |-> 0,
   script |-> EmptyScript, page |-> 0, context |-> <<>>]

Init ==
  FreshApp /\ retry = IdleRetry /\ detection = IdleDetection /\ narrative = IdleNarrative

(* ------------------------------ App.tsx ------------------------------- *)
\* a handleFileChange without its setScriptCache({})
handleFileChange_KeepsScriptCache ==
  /\ ~OverlayShown
  /\ pdfFile' = "file"
  /\ currentPage' = 1
  /\ totalPages' = 0
  /\ generatedScript' = EmptyScript
  /\ presentationContext' = ""
  /\ presentationLanguage' = null
  /\ scriptHistory' = EmptyScripts
  /\ contentCache' = EmptyCache
  /\ audioCache' = EmptyCache
  /\ spoken' = EmptyScripts
  /\ loading' = TRUE
  /\ slideText' = ""
  /\ isExtracting' = FALSE
  /\ scriptsForAnalysis' = <<>>
  /\ extractions' = {[e EXCEPT !.stale = TRUE] : e \in extractions}
  /\ gen' = IF gen.pc = "idle" \/ gen.stale THEN gen
            ELSE [gen EXCEPT !.stale = TRUE, !.ref = scriptsForAnalysis]
  /\ contentPrefetch' = {[r EXCEPT !.stale = TRUE] : r \in contentPrefetch}
  /\ playback' = Unmount(playback)
  /\ UNCHANGED <<scriptCache, isExporting, isGenerating, timers, tasks, vx, zx>>

\* App.handleFileChange(file) with a PDF file; ScriptDisplay and the export
\* components unmount because totalPages becomes 0
handleFileChange ==
  /\ ~OverlayShown
  /\ pdfFile' = "file"
  /\ currentPage' = 1
  /\ totalPages' = 0
  /\ generatedScript' = EmptyScript
  /\ presentationContext' = ""
  /\ presentationLanguage' = null
  /\ scriptHistory' = EmptyScripts
  /\ contentCache' = EmptyCache
  /\ scriptCache' = EmptyScripts
  /\ audioCache' = EmptyCache
  /\ spoken' = EmptyScripts
  /\ loading' = TRUE
  \* the unmounted ScriptDisplay loses its state; calls in flight keep
  \* running against the unmounted instance
  /\ slideText' = ""
  /\ isExtracting' = FALSE
  /\ scriptsForAnalysis' = <<>>
  /\ extractions' = {[e EXCEPT !.stale = TRUE] : e \in extractions}
  /\ gen' = IF gen.pc = "idle" \/ gen.stale THEN gen
            ELSE [gen EXCEPT !.stale = TRUE, !.ref = scriptsForAnalysis]
  /\ contentPrefetch' = {[r EXCEPT !.stale = TRUE] : r \in contentPrefetch}
  /\ playback' = Unmount(playback)
  /\ UNCHANGED <<isExporting, isGenerating, timers, tasks, vx, zx>>

\* SlideViewer loadPdf: setTotalPages(pdf.numPages); ScriptDisplay mounts and
\* its effects run for page 1
LoadPdf(n) ==
  /\ loading
  /\ loading' = FALSE
  /\ totalPages' = n
  /\ IF Truthy(contentCache[currentPage])
     THEN /\ slideText' = contentCache[currentPage]
          /\ UNCHANGED <<isExtracting, extractions>>
     ELSE /\ isExtracting' = TRUE
          /\ extractions' = extractions \cup
                {NewExtraction(currentPage, n, contentCache, isExporting)}
          /\ UNCHANGED slideText
  /\ tasks' = WithPrefetch(tasks,
                 PrefetchEffect(generatedScript, currentPage, n, isExporting, pdfFile,
                                scriptCache, contentCache, audioCache, presentationLanguage))
  /\ UNCHANGED <<pdfFile, currentPage, generatedScript, presentationContext, scriptHistory,
                 isExporting, presentationLanguage, contentCache, scriptCache, audioCache,
                 isGenerating, scriptsForAnalysis, timers, contentPrefetch, gen, vx, zx>>

\* App.handlePageChange(newPage), called by the navigation buttons, followed
\* by the effects of ScriptDisplay for the new page
handlePageChange(newPage) ==
  /\ pdfFile # "null" /\ totalPages > 0 /\ ~OverlayShown
  /\ newPage \in 1..totalPages /\ newPage # currentPage
  /\ scriptHistory' = IF HasText(generatedScript)
                      THEN Put(scriptHistory, currentPage, generatedScript)
                      ELSE scriptHistory
  /\ generatedScript' = EmptyScript
  /\ playback' = Unmount(playback)
  /\ currentPage' = newPage
  /\ UNCHANGED spoken
  /\ LET cached == HasText(scriptCache[newPage])
         contentHit == Truthy(contentCache[newPage])
         \* auto-generate effect in the render of the page change
         start1 == ~cached /\ AutoGenCond(slideText, isExtracting, isGenerating, EmptyScript)
         \* extractContent effect
         st2 == IF contentHit THEN contentCache[newPage] ELSE slideText
         ex2 == ~contentHit
         \* auto-generate effect again when isExtracting changed
         start2 == ex2 # isExtracting
                   /\ AutoGenCond(st2, ex2, isGenerating \/ start1, EmptyScript)
     IN /\ timers' = IF cached
                     THEN timers \cup {[page |-> newPage, script |-> scriptCache[newPage]]}
                     ELSE timers
        /\ slideText' = st2
        /\ isExtracting' = ex2
        /\ extractions' = IF contentHit THEN extractions
                          ELSE extractions \cup
                                 {NewExtraction(newPage, totalPages, contentCache,
                                                isExporting)}
        /\ IF start1 \/ start2
           THEN /\ gen' = NewGen(newPage, presentationLanguage, totalPages, presentationContext)
                /\ isGenerating' = TRUE
           ELSE UNCHANGED <<gen, isGenerating>>
  /\ UNCHANGED <<pdfFile, totalPages, presentationContext, isExporting, presentationLanguage,
                 contentCache, scriptCache, audioCache, loading, scriptsForAnalysis,
                 contentPrefetch, tasks, vx, zx>>

\* the 50 ms timer of handlePageChange: the script cached when the page was
\* changed becomes the displayed script; the prefetch effect runs
CachedScriptTimer(t) ==
  /\ t \in timers
  /\ timers' = timers \ {t}
  /\ generatedScript' = t.script
  \* AudioControls mounts with the cached script
  /\ playback' = AutoPlayEffect(playback, t.script, currentPage, audioCache)
  /\ tasks' = WithPrefetch(tasks,
                 PrefetchEffect(t.script, currentPage, totalPages, isExporting, pdfFile,
                                scriptCache, contentCache, audioCache, presentationLanguage))
  /\ UNCHANGED <<pdfFile, currentPage, totalPages, presentationContext, scriptHistory,
                 isExporting, presentationLanguage, contentCache, scriptCache, audioCache,
                 loading, uiVars, extractions, contentPrefetch, gen, vx, zx>>

(* --------------------- ScriptDisplay: current slide ------------------- *)
\* completion of extractContent() for the current-slide effect; content is
\* what extractContentForPage resolved with
ExtractionDone(e, content) ==
  /\ e \in extractions
  /\ extractions' = extractions \ {e}
  /\ contentCache' = Put(contentCache, e.page, content)
  /\ contentPrefetch' = SetPrefetchTimeout(contentPrefetch, e)
  /\ IF e.stale
     THEN UNCHANGED <<slideText, isExtracting, gen, isGenerating>>
     ELSE /\ slideText' = content
          /\ isExtracting' = FALSE
          \* auto-generate effect, run because isExtracting changed
          /\ IF isExtracting /\ AutoGenCond(content, FALSE, isGenerating, generatedScript)
             THEN /\ gen' = NewGen(currentPage, presentationLanguage, totalPages,
                                   presentationContext)
                  /\ isGenerating' = TRUE
             ELSE UNCHANGED <<gen, isGenerating>>
  /\ UNCHANGED <<pdfFile, currentPage, totalPages, generatedScript, presentationContext,
                 scriptHistory, isExporting, presentationLanguage, scriptCache, audioCache,
                 loading, scriptsForAnalysis, timers, tasks, vx, zx>>

\* the 100 ms timer of extractContent() fired: extractContentForPage(nextPage)
PrefetchTimeoutFired(r) ==
  /\ r \in contentPrefetch /\ r.pc = "timer"
  /\ contentPrefetch' = (contentPrefetch \ {r}) \cup {[r EXCEPT !.pc = "extract"]}
  /\ UNCHANGED <<appVars, uiVars, extractions, timers, gen, tasks, vx, zx>>

\* extractContentForPage(nextPage) of the timer resolved: its isExporting is
\* the one of the render that started extractContent()
NextContentDone(r, content) ==
  /\ r \in contentPrefetch /\ r.pc = "extract"
  /\ contentPrefetch' = contentPrefetch \ {r}
  /\ contentCache' = Put(contentCache, r.page, content)
  /\ UNCHANGED <<pdfFile, currentPage, totalPages, generatedScript, presentationContext,
                 scriptHistory, isExporting, presentationLanguage, scriptCache, audioCache,
                 loading, uiVars, extractions, timers, gen, tasks, vx, zx>>

\* the Generate Voiceover button
ClickGenerate ==
  /\ pdfFile # "null" /\ totalPages > 0 /\ ~OverlayShown
  /\ ~isGenerating /\ ~isExtracting
  /\ TextUsable(slideText)
  /\ gen' = NewGen(currentPage, presentationLanguage, totalPages, presentationContext)
  /\ isGenerating' = TRUE
  /\ generatedScript' = EmptyScript
  /\ playback' = Unmount(playback)
  /\ UNCHANGED spoken
  /\ UNCHANGED <<pdfFile, currentPage, totalPages, presentationContext, scriptHistory,
                 isExporting, presentationLanguage, contentCache, scriptCache, audioCache,
                 loading, slideText, isExtracting, scriptsForAnalysis, extractions, timers, contentPrefetch,
                 tasks, vx, zx>>

\* the tail of generateVoiceover after the script (and the context summary)
\* arrived: setGeneratedScript, language detection, finally-block, and the
\* prefetch effect of the render that follows
FinishGeneration(script) ==
  LET collect == gen.langNull /\ gen.page <= getSlidesToAnalyze(gen.total)
      ref == IF gen.stale THEN gen.ref ELSE scriptsForAnalysis
      ref2 == IF collect THEN Append(ref, script) ELSE ref
      detect == collect /\ Len(ref2) >= getSlidesToAnalyze(gen.total)
      lang2 == IF detect THEN detectPresentationLanguage(ref2) ELSE presentationLanguage
  IN /\ generatedScript' = script
     /\ scriptsForAnalysis' = IF gen.stale THEN scriptsForAnalysis ELSE ref2
     /\ presentationLanguage' = lang2
     /\ isGenerating' = FALSE
     /\ gen' = IdleGen
     \* setAutoPlayTrigger(prev => prev + 1) and the autoplay effect
     /\ playback' = AutoPlayEffect([playback EXCEPT !.triggered = TRUE], script,
                                   currentPage, audioCache)
     /\ tasks' = WithPrefetch(tasks,
                    PrefetchEffect(script, currentPage, totalPages, isExporting, pdfFile,
                                   scriptCache, contentCache, audioCache, lang2))

\* the script request of generateVoiceover answered with 200
GenScriptOk(script) ==
  /\ gen.pc = "script"
  /\ IF gen.page = 1 /\ gen.ctxEmpty
     THEN /\ gen' = [gen EXCEPT !.pc = "context", !.script = script]
          /\ UNCHANGED <<generatedScript, scriptsForAnalysis, presentationLanguage,
                         isGenerating, tasks, playback>>
     ELSE FinishGeneration(script)
  /\ UNCHANGED <<pdfFile, currentPage, totalPages, presentationContext, scriptHistory,
                 isExporting, contentCache, scriptCache, audioCache, loading, slideText,
                 isExtracting, extractions, timers, contentPrefetch, vx, zx>>

\* the context-summary request of slide 1 answered; ok is response.ok
GenContextDone(ok) ==
  /\ gen.pc = "context"
  /\ presentationContext' = IF ok THEN "context" ELSE presentationContext
  /\ FinishGeneration(gen.script)
  /\ UNCHANGED <<pdfFile, currentPage, totalPages, scriptHistory, isExporting,
                 contentCache, scriptCache, audioCache, loading, slideText, isExtracting,
                 extractions, timers, contentPrefetch, vx, zx>>

\* variant: the catch block alerts without the message of the error
GenFail_NoErrorText(error) ==
  /\ \/ gen.pc = "script"
     \/ gen.pc = "context" /\ error = TransportError
  /\ gen' = [IdleGen EXCEPT !.alert = GenAlert("")]
  /\ isGenerating' = FALSE
  /\ UNCHANGED <<appVars, slideText, isExtracting, scriptsForAnalysis, extractions,
                 timers, contentPrefetch, tasks, vx, zx>>

\* the try block threw: the script request was answered with a non-200
\* status, or the fetch of the script request or of the context-summary
\* request failed; the catch block alerts, the finally block clears
\* isGenerating
GenFail(error) ==
  /\ \/ gen.pc = "script"
     \/ gen.pc = "context" /\ error = TransportError
  /\ gen' = [IdleGen EXCEPT !.alert = GenAlert(error)]
  /\ isGenerating' = FALSE
  /\ UNCHANGED <<appVars, slideText, isExtracting, scriptsForAnalysis, extractions,
                 timers, contentPrefetch, tasks, vx, zx>>

(* --------------------------- AudioControls ---------------------------- *)
\* the 300 ms timer of the autoplay effect fired: generateAndPlayAudio()
\* plays the audio cached for the page, or requests one with generateAudio
PlayTimerFired ==
  /\ playback.pc = "timer"
  /\ playback' = IF Truthy(playback.cached)
                  THEN [IdlePlayback EXCEPT !.triggered = playback.triggered]
                  ELSE [playback EXCEPT !.pc = "fetch"]
  /\ UNCHANGED <<appVars, uiVars, workVars>>

\* the request of generateAudio was answered; ok: an audio URL is returned
\* and cached for the page, otherwise generateAudio returns null
PlayAudioFetched(ok) ==
  /\ playback.pc = "fetch"
  /\ playback' = [IdlePlayback EXCEPT !.triggered = playback.triggered]
  /\ audioCache' = IF ok THEN Put(audioCache, playback.page, PlaybackVoice)
                    ELSE audioCache
  /\ unreleased' = unreleased + (IF ok THEN Dropped(audioCache, playback.page) ELSE 0)
  /\ spoken' = IF ok THEN Put(spoken, playback.page, playback.script) ELSE spoken
  /\ UNCHANGED <<pdfFile, currentPage, totalPages, generatedScript, presentationContext,
                 scriptHistory, isExporting, presentationLanguage, contentCache,
                 scriptCache, loading, uiVars, workVars>>

(* ------------------- ScriptDisplay: prefetch tasks -------------------- *)
\* variant: the updater spreads the contentCache of the closure,
\* setContentCache({ ...contentCache, [nextPage]: nextContent })
PrefetchContentDone_FromClosure(task, content) ==
  /\ task \in tasks /\ task.pc = "content"
  /\ LET t == Head(task.targets)
     IN IF task.exporting
        THEN /\ tasks' = Continue(tasks, task, NextTarget(task, Tail(task.targets)))
             /\ UNCHANGED contentCache
        ELSE /\ contentCache' = Put(task.contentSnap, t, content)
             /\ tasks' = Continue(tasks, task,
                   IF ~Truthy(content) \/ IncludesError(content)
                   THEN NextTarget(task, Tail(task.targets))
                   ELSE [task EXCEPT !.pc = "script", !.nextContent = content])
  /\ UNCHANGED <<pdfFile, currentPage, totalPages, generatedScript, presentationContext,
                 scriptHistory, isExporting, presentationLanguage, scriptCache, audioCache,
                 loading, uiVars, extractions, timers, contentPrefetch, gen, vx, zx>>

\* extractContentForPage(nextPage) resolved inside prefetchNextScript
PrefetchContentDone(task, content) ==
  /\ task \in tasks /\ task.pc = "content"
  /\ LET t == Head(task.targets)
     IN IF task.exporting
        THEN /\ tasks' = Continue(tasks, task, NextTarget(task, Tail(task.targets)))
             /\ UNCHANGED contentCache
        ELSE /\ contentCache' = Put(contentCache, t, content)
             /\ tasks' = Continue(tasks, task,
                   IF ~Truthy(content) \/ IncludesError(content)
                   THEN NextTarget(task, Tail(task.targets))
                   ELSE [task EXCEPT !.pc = "script", !.nextContent = content])
  /\ UNCHANGED <<pdfFile, currentPage, totalPages, generatedScript, presentationContext,
                 scriptHistory, isExporting, presentationLanguage, scriptCache, audioCache,
                 loading, uiVars, extractions, timers, contentPrefetch, gen, vx, zx>>

\* the inline classifier of the prefetch audio step
prefetchDutchWords ==
  {"de", "het", "een", "van", "in", "op", "voor", "met", "aan", "dat", "dit",
   "zijn", "worden", "hebben", "kunnen", "moeten", "willen", "gaan", "maken",
   "deze", "zoals", "maar", "ook", "niet", "naar", "door", "over", "om",
   "bij", "uit", "meer", "andere", "alle", "veel", "nog", "wel",
   "bijvoorbeeld", "namelijk", "waarom", "hoe", "wanneer", "waar", "wie"}

PrefetchIsDutch(lang, nextScript) ==
  \/ lang = "dutch"
  \/ /\ lang = null
     /\ LET words == SplitWords(nextScript)
            dutchWordCount ==
              Cardinality({i \in DOMAIN words :
                             StripPunctuation(ToLowerCase(words[i])) \in prefetchDutchWords})
        IN dutchWordCount * 5 >= Len(words) /\ dutchWordCount >= 3

\* the script request of a prefetch answered with 200
PrefetchScriptOk(task, nextScript) ==
  /\ task \in tasks /\ task.pc = "script"
  /\ LET t == Head(task.targets)
     IN IF task.exporting
        THEN /\ tasks' = Continue(tasks, task, NextTarget(task, Tail(task.targets)))
             /\ UNCHANGED scriptCache
        ELSE /\ scriptCache' = Put(scriptCache, t, nextScript)
             /\ tasks' = Continue(tasks, task,
                   IF ~Truthy(task.audioSnap[t]) /\ HasText(nextScript)
                   THEN [task EXCEPT !.pc = "audio", !.nextScript = nextScript,
                                     !.isDutch = PrefetchIsDutch(task.lang, nextScript)]
                   ELSE NextTarget(task, Tail(task.targets)))
  /\ UNCHANGED <<pdfFile, currentPage, totalPages, generatedScript, presentationContext,
                 scriptHistory, isExporting, presentationLanguage, contentCache, audioCache,
                 loading, uiVars, extractions, timers, contentPrefetch, gen, vx, zx>>

\* the audio request of a prefetch answered with 200
PrefetchAudioOk(task) ==
  /\ task \in tasks /\ task.pc = "audio"
  /\ LET t == Head(task.targets)
     IN /\ audioCache' = IF task.exporting THEN audioCache
                         ELSE Put(audioCache, t, IF task.isDutch THEN "dutch" ELSE "english")
        /\ unreleased' = unreleased + (IF task.exporting THEN 0 ELSE Dropped(audioCache, t))
        /\ spoken' = IF task.exporting THEN spoken ELSE Put(spoken, t, task.nextScript)
        /\ tasks' = Continue(tasks, task, NextTarget(task, Tail(task.targets)))
  /\ UNCHANGED <<pdfFile, currentPage, totalPages, generatedScript, presentationContext,
                 scriptHistory, isExporting, presentationLanguage, contentCache, scriptCache,
                 loading, uiVars, extractions, timers, contentPrefetch, gen, vx, zx>>

\* variant: the failure is shown with the alert of generateVoiceover
PrefetchFail_Alerts(task) ==
  /\ task \in tasks /\ task.pc \in {"script", "audio"}
  /\ tasks' = Continue(tasks, task, NextTarget(task, Tail(task.targets)))
  /\ gen' = [gen EXCEPT !.alert = GenAlert(TransportError)]
  /\ UNCHANGED <<appVars, uiVars, extractions, timers, contentPrefetch, vx, zx>>

\* a script or audio request of a prefetch failed (non-200 or exception):
\* this slide's prefetch is abandoned
PrefetchFail(task) ==
  /\ task \in tasks /\ task.pc \in {"script", "audio"}
  /\ tasks' = Continue(tasks, task, NextTarget(task, Tail(task.targets)))
  /\ UNCHANGED <<appVars, uiVars, extractions, timers, contentPrefetch, gen, vx, zx>>

(* ------------------------ ExportVideo.handleExport -------------------- *)
\* top of the for-body: content from the closure's contentCache, or a call
VideoBeginSlide(x, pageNum) ==
  IF Truthy(x.contentSnap[pageNum])
  THEN [x EXCEPT !.pc = "sleep1", !.pageNum = pageNum, !.content = x.contentSnap[pageNum],
                 !.script = EmptyScript]
  ELSE [x EXCEPT !.pc = "extract", !.pageNum = pageNum, !.content = "",
                 !.script = EmptyScript]

\* an end of iteration whose test after the loop would be failedSlides.length > 0
VideoEndIteration_FailsOnAnySkip(x) ==
  IF x.pageNum < x.total THEN [x EXCEPT !.pc = "delay", !.content = "",
                                        !.script = EmptyScript]
  ELSE IF Len(x.failedSlides) > 0 THEN Returned(x, "failed", Failure(NoSlidesProcessed))
  ELSE [x EXCEPT !.pc = "mux", !.content = "", !.script = EmptyScript]

\* end of one iteration (after slideData.push or failedSlides.push); after
\* the last one the loop is left and slideData.length is tested
VideoEndIteration(x) ==
  IF x.pageNum < x.total THEN [x EXCEPT !.pc = "delay", !.content = "",
                                        !.script = EmptyScript]
  ELSE IF Len(x.slideData) = 0 THEN Returned(x, "failed", Failure(NoSlidesProcessed))
  ELSE [x EXCEPT !.pc = "mux", !.content = "", !.script = EmptyScript]

\* a catch block that would rethrow: the first failed slide ends the export
VideoSlideFailed_Aborts(x) ==
  Returned([x EXCEPT !.failedSlides = Append(x.failedSlides, x.pageNum)],
           "failed", Failure(NoSlidesProcessed))

\* a catch block without its failedSlides.push(pageNum)
VideoSlideFailed_NotRecorded(x) ==
  VideoEndIteration(x)

\* the catch block of the for-body
VideoSlideFailed(x) ==
  VideoEndIteration([x EXCEPT !.failedSlides = Append(x.failedSlides, x.pageNum)])

\* the Export as Video button
VideoExportClick ==
  /\ pdfFile # "null" /\ totalPages # 0 /\ ~isExporting /\ ~OverlayShown
  /\ vx.pc \in ExportReturned
  /\ isExporting' = TRUE
  /\ vx' = [IdleExport EXCEPT !.pc = "wait", !.total = totalPages,
                              !.lang = presentationLanguage,
                              !.contentSnap = contentCache, !.scriptSnap = scriptCache,
                              !.audioSnap = audioCache]
  /\ tasks' = FlagEffect(TRUE)
  \* the effect on isExporting clears the pending prefetch timer
  /\ contentPrefetch' = {r \in contentPrefetch : ~(r.pc = "timer" /\ ~r.stale)}
  /\ UNCHANGED <<pdfFile, currentPage, totalPages, generatedScript, presentationContext,
                 scriptHistory, presentationLanguage, contentCache, scriptCache, audioCache,
                 loading, uiVars, extractions, timers, gen, zx>>

\* scripts of the first slides found in the closure's scriptCache
RECURSIVE ScriptsToAnalyze(_, _, _)
ScriptsToAnalyze(snap, i, slidesToCheck) ==
  IF i > slidesToCheck THEN <<>>
  ELSE (IF HasText(snap[i]) THEN <<snap[i]>> ELSE <<>>)
       \o ScriptsToAnalyze(snap, i + 1, slidesToCheck)

\* sleep(20000) elapsed: language from the cached scripts, first slide begins
VideoWaitDone ==
  /\ vx.pc = "wait"
  /\ LET scriptsToAnalyze ==
           ScriptsToAnalyze(vx.scriptSnap, 1, Min(getSlidesToAnalyze(vx.total), vx.total))
         detect == vx.lang = null /\ Len(scriptsToAnalyze) > 0
         exportLanguage == IF vx.lang # null THEN vx.lang
                           ELSE IF detect THEN detectPresentationLanguage(scriptsToAnalyze)
                           ELSE "dutch"
     IN /\ presentationLanguage' = IF detect THEN exportLanguage ELSE presentationLanguage
        /\ vx' = VideoBeginSlide([vx EXCEPT !.exportLanguage = exportLanguage], 1)
  /\ UNCHANGED <<pdfFile, currentPage, totalPages, generatedScript, presentationContext,
                 scriptHistory, isExporting, contentCache, scriptCache, audioCache, loading,
                 uiVars, extractions, timers, contentPrefetch, gen, tasks, zx>>

\* extractContentForPage(pageNum) of the export resolved
VideoExtractOk ==
  /\ vx.pc = "extract"
  /\ contentCache' = Put(contentCache, vx.pageNum, SlideContent)
  /\ vx' = [vx EXCEPT !.pc = "sleep1", !.content = SlideContent]
  /\ UNCHANGED <<pdfFile, currentPage, totalPages, generatedScript, presentationContext,
                 scriptHistory, isExporting, presentationLanguage, scriptCache, audioCache,
                 loading, uiVars, extractions, timers, contentPrefetch, gen, tasks, zx>>

\* sleep(1000) after the content step elapsed: script from the closure's
\* scriptCache, or a call
VideoSleep1Done ==
  /\ vx.pc = "sleep1"
  /\ vx' = IF HasText(vx.scriptSnap[vx.pageNum])
           THEN [vx EXCEPT !.pc = "sleep2", !.script = vx.scriptSnap[vx.pageNum]]
           ELSE [vx EXCEPT !.pc = "script"]
  /\ UNCHANGED <<appVars, uiVars, extractions, timers, contentPrefetch, gen, tasks, zx>>

\* variant: the language detected from the first script is stored with
\* setPresentationLanguage only, exportLanguage keeps its value
VideoScriptOk_KeepsExportLanguage(script) ==
  /\ vx.pc = "script"
  /\ scriptCache' = Put(scriptCache, vx.pageNum, script)
  /\ LET bootstrap == vx.lang = null /\ vx.pageNum = 1
     IN /\ presentationLanguage' = IF bootstrap THEN detectPresentationLanguage(<<script>>)
                                    ELSE presentationLanguage
        /\ vx' = [vx EXCEPT !.pc = "sleep2", !.script = script]
  /\ UNCHANGED <<pdfFile, currentPage, totalPages, generatedScript, presentationContext,
                 scriptHistory, isExporting, contentCache, audioCache, loading, uiVars,
                 extractions, timers, contentPrefetch, gen, tasks, zx>>

\* generateScriptForSlide of the export resolved with a non-empty script
VideoScriptOk(script) ==
  /\ vx.pc = "script"
  /\ scriptCache' = Put(scriptCache, vx.pageNum, script)
  /\ LET bootstrap == vx.lang = null /\ vx.pageNum = 1
         exportLanguage == IF bootstrap THEN detectPresentationLanguage(<<script>>)
                           ELSE vx.exportLanguage
     IN /\ presentationLanguage' = IF bootstrap THEN exportLanguage ELSE presentationLanguage
        /\ vx' = [vx EXCEPT !.pc = "sleep2", !.script = script,
                            !.exportLanguage = exportLanguage]
  /\ UNCHANGED <<pdfFile, currentPage, totalPages, generatedScript, presentationContext,
                 scriptHistory, isExporting, contentCache, audioCache, loading, uiVars,
                 extractions, timers, contentPrefetch, gen, tasks, zx>>

\* sleep(1000) after the script step elapsed: the cached audio is fetched
\* from its blob URL, or audio is generated
VideoSleep2Done ==
  /\ vx.pc = "sleep2"
  /\ vx' = [vx EXCEPT !.pc = IF Truthy(vx.audioSnap[vx.pageNum]) THEN "audioFetch"
                             ELSE "synth"]
  /\ UNCHANGED <<appVars, uiVars, extractions, timers, contentPrefetch, gen, tasks, zx>>

\* fetch(audioCache[pageNum]) answered; a failed fetch regenerates the audio
VideoAudioFetchDone(ok) ==
  /\ vx.pc = "audioFetch"
  /\ vx' = [vx EXCEPT !.pc = IF ok THEN "render" ELSE "synth"]
  /\ UNCHANGED <<appVars, uiVars, extractions, timers, contentPrefetch, gen, tasks, zx>>

\* generateAudioForScript(script, exportLanguage) resolved
VideoSynthOk ==
  /\ vx.pc = "synth"
  /\ audioCache' = Put(audioCache, vx.pageNum, vx.exportLanguage)
  /\ unreleased' = unreleased + Dropped(audioCache, vx.pageNum)
  /\ spoken' = Put(spoken, vx.pageNum, vx.script)
  /\ vx' = [vx EXCEPT !.pc = "render"]
  /\ UNCHANGED <<pdfFile, currentPage, totalPages, generatedScript, presentationContext,
                 scriptHistory, isExporting, presentationLanguage, contentCache, scriptCache,
                 loading, uiVars, extractions, timers, contentPrefetch, gen, tasks, zx>>

\* a call wrapped in retryWithBackoff threw (the error of its last attempt):
\* the catch block of the for-body
VideoCallFailed ==
  /\ vx.pc \in {"extract", "script", "synth"}
  /\ LET x == VideoSlideFailed(vx)
     IN /\ vx' = x
        /\ isExporting' = IF x.pc = "failed" THEN FALSE ELSE isExporting
        /\ tasks' = IF x.pc = "failed" THEN FlagEffect(FALSE) ELSE tasks
  /\ UNCHANGED <<pdfFile, currentPage, totalPages, generatedScript, presentationContext,
                 scriptHistory, presentationLanguage, contentCache, scriptCache, audioCache,
                 loading, uiVars, extractions, timers, contentPrefetch, gen, zx>>

\* renderSlideToImage and getAudioDuration done (ok) or renderSlideToImage
\* rejected: slideData.push, or the catch block
VideoRenderDone(ok) ==
  /\ vx.pc = "render"
  /\ LET x == IF ok THEN VideoEndIteration(
                            [vx EXCEPT !.slideData = Append(vx.slideData, vx.pageNum)])
              ELSE VideoSlideFailed(vx)
     IN /\ vx' = x
        /\ isExporting' = IF x.pc = "failed" THEN FALSE ELSE isExporting
        /\ tasks' = IF x.pc = "failed" THEN FlagEffect(FALSE) ELSE tasks
  /\ UNCHANGED <<pdfFile, currentPage, totalPages, generatedScript, presentationContext,
                 scriptHistory, presentationLanguage, contentCache, scriptCache, audioCache,
                 loading, uiVars, extractions, timers, contentPrefetch, gen, zx>>

\* the delay between two slides (1.5 s, or 3 s after a failure) elapsed
VideoDelayDone ==
  /\ vx.pc = "delay"
  /\ vx' = VideoBeginSlide(vx, vx.pageNum + 1)
  /\ UNCHANGED <<appVars, uiVars, extractions, timers, contentPrefetch, gen, tasks, zx>>

\* muxing and download done (ok), or an encoder call threw (outer catch)
VideoMuxDone(ok) ==
  /\ vx.pc = "mux"
  /\ vx' = IF ok THEN Returned(vx, "complete", VideoReport(vx))
           ELSE [IdleExport EXCEPT !.pc = "failed", !.alert = Failure(EncodingFailed)]
  /\ isExporting' = IF ok THEN isExporting ELSE FALSE
  /\ tasks' = IF ok THEN tasks ELSE FlagEffect(FALSE)
  /\ UNCHANGED <<pdfFile, currentPage, totalPages, generatedScript, presentationContext,
                 scriptHistory, presentationLanguage, contentCache, scriptCache, audioCache,
                 loading, uiVars, extractions, timers, contentPrefetch, gen, zx>>

\* a completion timer that would leave the export-in-progress flag set
VideoCompleteTimer_KeepsFlag ==
  /\ vx.pc = "complete"
  /\ vx' = [vx EXCEPT !.pc = "done"]
  /\ UNCHANGED <<appVars, uiVars, extractions, timers, contentPrefetch, gen, tasks, zx>>

\* the 2 s timer after 'Complete!'
VideoCompleteTimer ==
  /\ vx.pc = "complete"
  /\ vx' = [vx EXCEPT !.pc = "done"]
  /\ isExporting' = FALSE
  /\ tasks' = FlagEffect(FALSE)
  /\ UNCHANGED <<pdfFile, currentPage, totalPages, generatedScript, presentationContext,
                 scriptHistory, presentationLanguage, contentCache, scriptCache, audioCache,
                 loading, uiVars, extractions, timers, contentPrefetch, gen, zx>>

\* a handleCancel that would also forget the language of the presentation
VideoCancel_ResetsLanguage ==
  /\ isExporting
  /\ isExporting' = FALSE
  /\ presentationLanguage' = null
  /\ tasks' = FlagEffect(FALSE)
  /\ UNCHANGED <<pdfFile, currentPage, totalPages, generatedScript, presentationContext,
                 scriptHistory, contentCache, scriptCache, audioCache,
                 loading, uiVars, extractions, timers, contentPrefetch, gen, vx, zx>>

\* ExportVideo.handleCancel: the Cancel Export button of the overlay
VideoCancel ==
  /\ isExporting
  /\ isExporting' = FALSE
  /\ tasks' = FlagEffect(FALSE)
  /\ UNCHANGED <<pdfFile, currentPage, totalPages, generatedScript, presentationContext,
                 scriptHistory, presentationLanguage, contentCache, scriptCache, audioCache,
                 loading, uiVars, extractions, timers, contentPrefetch, gen, vx, zx>>

(* -------------------- ExportVideoSimple.handleExport ------------------ *)
\* results the extractor of the ZIP export resolves with; it never rejects
ZipExtractResults == {SlideContent, ZipErrorMarker}

\* the classifier local to ExportVideoSimple
zipDutchWords ==
  {"de", "het", "een", "van", "in", "op", "voor", "met", "aan", "dat", "dit",
   "zijn", "worden", "hebben", "kunnen", "moeten", "willen", "gaan", "maken",
   "deze", "zoals", "maar", "ook", "niet", "naar", "door", "over", "om"}

zipIsDutchText(text) ==
  LET words == SplitWords(text)
      dutchWordCount ==
        Cardinality({i \in DOMAIN words :
                       StripPunctuation(ToLowerCase(words[i])) \in zipDutchWords})
  IN dutchWordCount * 5 >= Len(words) /\ dutchWordCount >= 3

\* the audio step of the for-body: the cached audio is fetched, or generated
ZipAudioStep(x, script) ==
  [x EXCEPT !.pc = IF Truthy(x.audioSnap[x.pageNum]) THEN "audioFetch" ELSE "synth",
            !.script = script, !.content = ""]

\* the for-loop from slide pageNum up to its next await: script and content
\* come from the closure's caches; a slide whose cached content carries an
\* error marker is skipped without an await; after the last slide
\* totalPages - failedSlides.length is tested
RECURSIVE ZipLoop(_, _)
ZipLoop(x, pageNum) ==
  IF pageNum > x.total
  THEN IF x.total - Len(x.failedSlides) = 0
       THEN Returned([x EXCEPT !.exporting = FALSE], "failed", Failure(NoSlidesProcessed))
       ELSE [x EXCEPT !.pc = "pack", !.content = "", !.script = EmptyScript]
  ELSE LET y == [x EXCEPT !.pageNum = pageNum, !.content = "", !.script = EmptyScript]
           content == x.contentSnap[pageNum]
       IN IF HasText(x.scriptSnap[pageNum]) THEN ZipAudioStep(y, x.scriptSnap[pageNum])
          ELSE IF ~Truthy(content) THEN [y EXCEPT !.pc = "extract"]
          ELSE IF IncludesError(content)
               THEN ZipLoop([y EXCEPT !.failedSlides = Append(x.failedSlides, pageNum)],
                            pageNum + 1)
               ELSE [y EXCEPT !.pc = "script", !.content = content]

\* failedSlides.push(pageNum) followed by continue, or by the catch block
ZipSlideFailed(x) ==
  ZipLoop([x EXCEPT !.failedSlides = Append(x.failedSlides, x.pageNum)], x.pageNum + 1)

\* the Export as ZIP button
ZipExportClick ==
  /\ pdfFile # "null" /\ totalPages # 0 /\ ~zx.exporting /\ ~OverlayShown
  /\ zx.pc \in ExportReturned
  /\ zx' = ZipLoop([IdleExport EXCEPT !.total = totalPages, !.exporting = TRUE,
                                      !.contentSnap = contentCache,
                                      !.scriptSnap = scriptCache,
                                      !.audioSnap = audioCache], 1)
  /\ UNCHANGED <<appVars, uiVars, extractions, timers, contentPrefetch, gen, tasks, vx>>

\* extractContentForPage(pageNum, pdfFile) of the ZIP export resolved
ZipExtractDone(content) ==
  /\ zx.pc = "extract"
  /\ contentCache' = Put(contentCache, zx.pageNum, content)
  /\ zx' = IF ~Truthy(content) \/ IncludesError(content) THEN ZipSlideFailed(zx)
           ELSE [zx EXCEPT !.pc = "script", !.content = content]
  /\ UNCHANGED <<pdfFile, currentPage, totalPages, generatedScript, presentationContext,
                 scriptHistory, isExporting, presentationLanguage, scriptCache, audioCache,
                 loading, uiVars, extractions, timers, contentPrefetch, gen, tasks, vx>>

\* generateScriptForSlide of the ZIP export resolved with a script
ZipScriptOk(script) ==
  /\ zx.pc = "script"
  /\ scriptCache' = Put(scriptCache, zx.pageNum, script)
  /\ zx' = ZipAudioStep(zx, script)
  /\ UNCHANGED <<pdfFile, currentPage, totalPages, generatedScript, presentationContext,
                 scriptHistory, isExporting, presentationLanguage, contentCache, audioCache,
                 loading, uiVars, extractions, timers, contentPrefetch, gen, tasks, vx>>

\* generateAudioForScript(script) of the ZIP export resolved with a blob
ZipSynthOk ==
  /\ zx.pc = "synth"
  /\ audioCache' = Put(audioCache, zx.pageNum,
                       IF zipIsDutchText(zx.script) THEN "dutch" ELSE "english")
  /\ unreleased' = unreleased + Dropped(audioCache, zx.pageNum)
  /\ spoken' = Put(spoken, zx.pageNum, zx.script)
  /\ zx' = [zx EXCEPT !.pc = "render"]
  /\ UNCHANGED <<pdfFile, currentPage, totalPages, generatedScript, presentationContext,
                 scriptHistory, isExporting, presentationLanguage, contentCache, scriptCache,
                 loading, uiVars, extractions, timers, contentPrefetch, gen, tasks, vx>>

\* fetch(audioCache[pageNum]) of the ZIP export answered
ZipAudioFetchOk ==
  /\ zx.pc = "audioFetch"
  /\ zx' = [zx EXCEPT !.pc = "render"]
  /\ UNCHANGED <<appVars, uiVars, extractions, timers, contentPrefetch, gen, tasks, vx>>

\* generateScriptForSlide or generateAudioForScript resolved with null, or
\* fetch(audioCache[pageNum]) threw: the slide is skipped
ZipCallFailed ==
  /\ zx.pc \in {"script", "synth", "audioFetch"}
  /\ zx' = ZipSlideFailed(zx)
  /\ UNCHANGED <<appVars, uiVars, extractions, timers, contentPrefetch, gen, tasks, vx>>

\* renderSlideToImage resolved (ok): the slide, its audio and its script are
\* added to the package; or it rejected: the catch block
ZipRenderDone(ok) ==
  /\ zx.pc = "render"
  /\ zx' = IF ok THEN ZipLoop([zx EXCEPT !.slideData = Append(zx.slideData, zx.pageNum)],
                              zx.pageNum + 1)
           ELSE ZipSlideFailed(zx)
  /\ UNCHANGED <<appVars, uiVars, extractions, timers, contentPrefetch, gen, tasks, vx>>

\* zip.generateAsync resolved and the download started (ok), or it threw
ZipPackDone(ok) ==
  /\ zx.pc = "pack"
  /\ zx' = IF ok THEN Returned(zx, "complete", ZipReport(zx))
           ELSE [IdleExport EXCEPT !.pc = "failed", !.alert = Failure(EncodingFailed)]
  /\ UNCHANGED <<appVars, uiVars, extractions, timers, contentPrefetch, gen, tasks, vx>>

\* the 2 s timer after 'Complete!'
ZipCompleteTimer ==
  /\ zx.pc = "complete"
  /\ zx' = [zx EXCEPT !.pc = "done", !.exporting = FALSE]
  /\ UNCHANGED <<appVars, uiVars, extractions, timers, contentPrefetch, gen, tasks, vx>>

\* ExportVideoSimple.handleCancel: abortControllerRef.current.abort() has no
\* listener, setIsExporting(false) hides the overlay
ZipCancel ==
  /\ zx.exporting
  /\ zx' = [zx EXCEPT !.exporting = FALSE]
  /\ UNCHANGED <<appVars, uiVars, extractions, timers, contentPrefetch, gen, tasks, vx>>

(* ------------------------------- Next --------------------------------- *)
\* a step of the user counts against the budget of the session, a step of the
\* program does not; the ...Audio steps set playback themselves, the
\* ...Handles steps write an audio to AudioCache
Async == UNCHANGED <<clicks, retry, detection, narrative>>
ClickAudio ==
  clicks < MaxClicks /\ clicks' = clicks + 1
  /\ UNCHANGED <<retry, detection, narrative, unreleased>>
FreeAudio == Async /\ UNCHANGED <<unreleased, spoken>>
FreeHandles == Async /\ UNCHANGED playback
Click == ClickAudio /\ UNCHANGED <<playback, spoken>>
Free == FreeAudio /\ UNCHANGED playback

\* the whole program
Next ==
  \/ ClickAudio /\ handleFileChange
  \/ Free /\ \E n \in 1..MaxPages : LoadPdf(n)
  \/ ClickAudio /\ \E p \in 1..MaxPages : handlePageChange(p)
  \/ FreeAudio /\ \E t \in timers : CachedScriptTimer(t)
  \/ Free /\ \E e \in extractions, c \in InteractiveExtractResults : ExtractionDone(e, c)
  \/ Free /\ \E r \in contentPrefetch : PrefetchTimeoutFired(r)
  \/ Free /\ \E r \in contentPrefetch, c \in InteractiveExtractResults : NextContentDone(r, c)
  \/ ClickAudio /\ ClickGenerate
  \/ FreeAudio /\ \E s \in ScriptAnswers(gen.page) : GenScriptOk(s)
  \/ FreeAudio /\ \E ok \in BOOLEAN : GenContextDone(ok)
  \/ Free /\ \E error \in GenErrors : GenFail(error)
  \/ FreeAudio /\ PlayTimerFired
  \/ Async /\ \E ok \in BOOLEAN : PlayAudioFetched(ok)
  \/ Free /\ \E t \in tasks, c \in InteractiveExtractResults : PrefetchContentDone(t, c)
  \/ Free /\ \E t \in tasks : \E s \in ScriptAnswers(Head(t.targets)) : PrefetchScriptOk(t, s)
  \/ FreeHandles /\ \E t \in tasks : PrefetchAudioOk(t)
  \/ Free /\ \E t \in tasks : PrefetchFail(t)
  \/ Click /\ VideoExportClick
  \/ Free /\ VideoWaitDone
  \/ Free /\ VideoExtractOk
  \/ Free /\ VideoSleep1Done
  \/ Free /\ \E s \in ScriptAnswers(vx.pageNum) : VideoScriptOk(s)
  \/ Free /\ VideoSleep2Done
  \/ Free /\ \E ok \in BOOLEAN : VideoAudioFetchDone(ok)
  \/ FreeHandles /\ VideoSynthOk
  \/ Free /\ VideoCallFailed
  \/ Free /\ \E ok \in BOOLEAN : VideoRenderDone(ok)
  \/ Free /\ VideoDelayDone
  \/ Free /\ \E ok \in BOOLEAN : VideoMuxDone(ok)
  \/ Free /\ VideoCompleteTimer
  \/ Free /\ VideoCancel
  \/ Click /\ ZipExportClick
  \/ Free /\ \E c \in ZipExtractResults : ZipExtractDone(c)
  \/ Free /\ \E s \in ScriptAnswers(zx.pageNum) : ZipScriptOk(s)
  \/ FreeHandles /\ ZipSynthOk
  \/ Free /\ ZipAudioFetchOk
  \/ Free /\ ZipCallFailed
  \/ Free /\ \E ok \in BOOLEAN : ZipRenderDone(ok)
  \/ Free /\ \E ok \in BOOLEAN : ZipPackDone(ok)
  \/ Free /\ ZipCompleteTimer
  \/ Free /\ ZipCancel

Spec == Init /\ [][Next]_vars

\* a cache holding v for the slides lo..hi of a document of n pages
CachedRange(n, lo, hi, v, none) ==
  [p \in Pages |-> IF lo <= p /\ p <= Min(hi, n) THEN v ELSE none]

\* A document of n pages at rest, with nothing in flight, at one of three
\* stages of a session:
\*   "failed"     the first slide was extracted, the content of the second
\*                was prefetched, and the script request of the first slide
\*                failed: no script is displayed, nothing else is prefetched;
\*   "prefetched" the script of the first slide was generated and the next
\*                two slides were prefetched;
\*   "second"     after that the user went to the second slide, whose cached
\*                script is displayed, and its next two slides were prefetched
AtRest(n, stage) ==
  /\ pdfFile = "file"
  /\ totalPages = n
  /\ currentPage = IF stage = "second" THEN 2 ELSE 1
  /\ generatedScript = CASE stage = "failed" -> EmptyScript
                         [] stage = "prefetched" -> EnglishScript
                         [] stage = "second" -> DutchScript
  /\ presentationContext = IF stage = "failed" THEN "" ELSE "context"
  /\ scriptHistory = IF stage = "second" THEN Put(EmptyScripts, 1, EnglishScript)
                     ELSE EmptyScripts
  /\ isExporting = FALSE
  /\ presentationLanguage =
       IF stage = "prefetched" /\ n = 1
       THEN detectPresentationLanguage(<<EnglishScript>>) ELSE null
  /\ contentCache = CachedRange(n, 1, CASE stage = "failed" -> 2
                                        [] stage = "prefetched" -> 3
                                        [] stage = "second" -> 4, SlideContent, "")
  /\ scriptCache = CachedRange(n, 2, CASE stage = "failed" -> 0
                                       [] stage = "prefetched" -> 3
                                       [] stage = "second" -> 4, DutchScript, EmptyScript)
  /\ audioCache = CachedRange(n, 2, CASE stage = "failed" -> 0
                                      [] stage = "prefetched" -> 3
                                      [] stage = "second" -> 4, "dutch", NoAudio)
  /\ loading = FALSE
  /\ isGenerating = FALSE
  /\ slideText = SlideContent
  /\ isExtracting = FALSE
  /\ scriptsForAnalysis = IF stage = "failed" THEN <<>> ELSE <<EnglishScript>>
  /\ extractions = {}
  /\ timers = {}
  /\ contentPrefetch = {}
  /\ gen = IdleGen
  /\ tasks = {}
  /\ vx = IdleExport
  /\ zx = IdleExport
  /\ clicks = IF stage = "second" THEN 2 ELSE 1
  /\ playback = [IdlePlayback EXCEPT !.triggered = (stage # "failed")]
  /\ unreleased = 0
  \* the cached audio was prefetched from the cached scripts
  /\ spoken = scriptCache
  /\ retry = IdleRetry
  /\ detection = IdleDetection
  /\ narrative = IdleNarrative

InitExport ==
  \E n \in 1..MaxExportPages, stage \in {"failed", "prefetched", "second"} :
    /\ stage = "second" => n >= 2
    /\ AtRest(n, stage)

\* neither exporter has been started
NoExportYet == vx.pc = "idle" /\ zx.pc = "idle"

\* one export of the loaded document, as a video or as a ZIP package; the
\* user may cancel it, and may then choose another file
NextExport ==
  \/ Free /\ NoExportYet /\ VideoExportClick
  \/ Free /\ VideoWaitDone
  \/ Free /\ VideoExtractOk
  \/ Free /\ VideoSleep1Done
  \/ Free /\ \E s \in ScriptAnswers(vx.pageNum) : VideoScriptOk(s)
  \/ Free /\ VideoSleep2Done
  \/ Free /\ \E ok \in BOOLEAN : VideoAudioFetchDone(ok)
  \/ FreeHandles /\ VideoSynthOk
  \/ Free /\ VideoCallFailed
  \/ Free /\ \E ok \in BOOLEAN : VideoRenderDone(ok)
  \/ Free /\ VideoDelayDone
  \/ Free /\ \E ok \in BOOLEAN : VideoMuxDone(ok)
  \/ Free /\ VideoCompleteTimer
  \/ Free /\ VideoCancel
  \/ Free /\ NoExportYet /\ ZipExportClick
  \/ Free /\ \E c \in ZipExtractResults : ZipExtractDone(c)
  \/ Free /\ \E s \in ScriptAnswers(zx.pageNum) : ZipScriptOk(s)
  \/ FreeHandles /\ ZipSynthOk
  \/ Free /\ ZipAudioFetchOk
  \/ Free /\ ZipCallFailed
  \/ Free /\ \E ok \in BOOLEAN : ZipRenderDone(ok)
  \/ Free /\ \E ok \in BOOLEAN : ZipPackDone(ok)
  \/ Free /\ ZipCompleteTimer
  \/ Free /\ ZipCancel
  \/ Async /\ UNCHANGED unreleased /\ handleFileChange

SpecExport == InitExport /\ [][NextExport]_vars

\* the steps of a running export that are taken by the program: an awaited
\* call (model, synthesizer, renderer, encoder) or a timer returning
ExportProgress ==
  \/ Free /\ VideoWaitDone
  \/ Free /\ VideoExtractOk
  \/ Free /\ VideoSleep1Done
  \/ Free /\ \E s \in ScriptAnswers(vx.pageNum) : VideoScriptOk(s)
  \/ Free /\ VideoSleep2Done
  \/ Free /\ \E ok \in BOOLEAN : VideoAudioFetchDone(ok)
  \/ FreeHandles /\ VideoSynthOk
  \/ Free /\ VideoCallFailed
  \/ Free /\ \E ok \in BOOLEAN : VideoRenderDone(ok)
  \/ Free /\ VideoDelayDone
  \/ Free /\ \E ok \in BOOLEAN : VideoMuxDone(ok)
  \/ Free /\ VideoCompleteTimer
  \/ Free /\ \E c \in ZipExtractResults : ZipExtractDone(c)
  \/ Free /\ \E s \in ScriptAnswers(zx.pageNum) : ZipScriptOk(s)
  \/ FreeHandles /\ ZipSynthOk
  \/ Free /\ ZipAudioFetchOk
  \/ Free /\ ZipCallFailed
  \/ Free /\ \E ok \in BOOLEAN : ZipRenderDone(ok)
  \/ Free /\ \E ok \in BOOLEAN : ZipPackDone(ok)
  \/ Free /\ ZipCompleteTimer

\* the export study under the assumption that every awaited call and every
\* timer of a running export eventually returns; the steps of the user
\* (starting, cancelling, choosing a file) are under no such assumption
MaxLivePages == 3
InitExportLive ==
  \E n \in 1..MaxLivePages, stage \in {"failed", "prefetched", "second"} :
    /\ stage = "second" => n >= 2
    /\ AtRest(n, stage)

SpecExportLive == InitExportLive /\ [][NextExport]_vars /\ WF_vars(ExportProgress)

\* one call of a helper of ExportVideo, with the services configured or not
InitRetry ==
  /\ FreshApp /\ detection = IdleDetection /\ narrative = IdleNarrative
  /\ \E fn \in RetriedHelpers, configured \in BOOLEAN : retry = NewRetry(fn, configured)

NextRetry ==
  \/ RetryCallReturned
  \/ \E kind \in ConfigErrors \cup SemanticErrors \cup {"transport"} : RetryCallThrew(kind)
  \/ RetrySleepDone

SpecRetry == InitRetry /\ [][NextRetry]_vars

(* ------------------------ a Dutch presentation ------------------------ *)
\* A session of the viewer with a document of three slides that the
\* ContentModel narrates in Dutch, slide 1 included; nothing is exported.
NextDutchDeck ==
  \/ ClickAudio /\ handleFileChange
  \/ Free /\ LoadPdf(3)
  \/ ClickAudio /\ \E p \in 1..3 : handlePageChange(p)
  \/ FreeAudio /\ \E t \in timers : CachedScriptTimer(t)
  \/ Free /\ \E e \in extractions : ExtractionDone(e, SlideContent)
  \/ Free /\ \E r \in contentPrefetch : PrefetchTimeoutFired(r)
  \/ Free /\ \E r \in contentPrefetch : NextContentDone(r, SlideContent)
  \/ ClickAudio /\ ClickGenerate
  \/ FreeAudio /\ GenScriptOk(DutchScript)
  \/ FreeAudio /\ \E ok \in BOOLEAN : GenContextDone(ok)
  \/ FreeAudio /\ PlayTimerFired
  \/ Async /\ \E ok \in BOOLEAN : PlayAudioFetched(ok)
  \/ Free /\ \E t \in tasks : PrefetchContentDone(t, SlideContent)
  \/ Free /\ \E t \in tasks : PrefetchScriptOk(t, DutchScript)
  \/ FreeHandles /\ \E t \in tasks : PrefetchAudioOk(t)

SpecDutchDeck == Init /\ [][NextDutchDeck]_vars

(* ----------------------- the language detection ----------------------- *)
\* n times the piece w
Repeat(w, n) == [i \in 1..n |-> w]

\* the forms in which a word of the Dutch list occurs in a text: plain,
\* capitalised, followed by one punctuation mark, followed by two; "bij" and
\* "wordt" are words of the list of languageDetection.ts
DutchWordForms == {"de", "De", "het.", "een?!", "bij", "wordt"}

\* a text of d Dutch words in one form and o other words, with or without
\* whitespace before and after; without words it is '' or whitespace only
Text(d, form, o, lead, trail) ==
  IF d + o = 0 THEN (IF lead \/ trail THEN <<"", "">> ELSE <<>>)
  ELSE (IF lead THEN <<"">> ELSE <<>>) \o Repeat(form, d) \o Repeat("slide", o)
       \o (IF trail THEN <<"">> ELSE <<>>)

Texts ==
  {Text(d, form, o, lead, trail) :
     d \in 0..MaxDutchWords, form \in DutchWordForms, o \in 0..MaxOtherWords,
     lead \in BOOLEAN, trail \in BOOLEAN}

\* the scripts that make up the lists given to detectPresentationLanguage:
\* a Dutch one, an English one, '' and a whitespace-only one
SampleTexts == {DutchScript, EnglishScript, EmptyScript, <<"", "">>}

RECURSIVE Lists(_, _)
\* the lists of at most n elements of set S
Lists(S, n) ==
  IF n = 0 THEN {<<>>}
  ELSE LET shorter == Lists(S, n - 1)
       IN shorter \cup {Append(l, x) : l \in {m \in shorter : Len(m) = n - 1}, x \in S}

\* detectPresentationLanguage(scripts) is called with one text, or with a
\* list of sample scripts
InitLanguage ==
  /\ FreshApp /\ retry = IdleRetry /\ narrative = IdleNarrative
  /\ \E scripts \in {<<t>> : t \in Texts} \cup Lists(SampleTexts, MaxSamples) :
       detection = [IdleDetection EXCEPT !.pc = "called", !.scripts = scripts]

\* the isDutchText verdict on every script of the list
ClassifyScripts ==
  /\ detection.pc = "called"
  /\ detection' = [detection EXCEPT
                     !.pc = "classified",
                     !.isDutch = [i \in DOMAIN detection.scripts |->
                                    isDutchText(detection.scripts[i])]]
  /\ UNCHANGED <<appVars, uiVars, workVars, playback, unreleased, spoken, clicks, retry, narrative>>

\* detectPresentationLanguage returns
DetectionReturned ==
  /\ detection.pc = "classified"
  /\ detection' = [detection EXCEPT
                     !.pc = "returned",
                     !.language = detectPresentationLanguage(detection.scripts)]
  /\ UNCHANGED <<appVars, uiVars, workVars, playback, unreleased, spoken, clicks, retry, narrative>>

\* the verdicts of the classifiers used while presentationLanguage is null:
\* the inline one of the prefetch audio step and isDutchText of the ZIP export
ClassifyFallback ==
  /\ detection.pc = "called"
  /\ detection' = [detection EXCEPT
                     !.pc = "fallback",
                     !.prefetch = [i \in DOMAIN detection.scripts |->
                                     PrefetchIsDutch(null, detection.scripts[i])],
                     !.zip = [i \in DOMAIN detection.scripts |->
                                zipIsDutchText(detection.scripts[i])]]
  /\ UNCHANGED <<appVars, uiVars, workVars, playback, unreleased, spoken, clicks, retry, narrative>>

NextLanguage ==
  \/ ClassifyScripts
  \/ ClassifyFallback
  \/ DetectionReturned

SpecLanguage == InitLanguage /\ [][NextLanguage]_vars

(* ------------------ a session after the first narration ----------------- *)
\* a 2-slide document is open on slide 1: its script was generated, displayed
\* and spoken, and the prefetch of slide 2 has just begun
FirstSlideNarrated ==
  /\ pdfFile = "file" /\ currentPage = 1 /\ totalPages = 2
  /\ generatedScript = EnglishScript
  /\ presentationContext = "context"
  /\ scriptHistory = EmptyScripts
  /\ isExporting = FALSE
  /\ presentationLanguage = null
  /\ contentCache = Put(EmptyCache, 1, SlideContent)
  /\ scriptCache = EmptyScripts
  /\ audioCache = Put(EmptyCache, 1, PlaybackVoice)
  /\ loading = FALSE /\ isGenerating = FALSE
  /\ slideText = SlideContent /\ isExtracting = FALSE
  /\ scriptsForAnalysis = <<EnglishScript>>
  /\ extractions = {} /\ timers = {}
  /\ contentPrefetch = {[pc |-> "timer", page |-> 2, stale |-> FALSE]}
  /\ gen = IdleGen
  /\ tasks = PrefetchEffect(EnglishScript, 1, 2, FALSE, "file", EmptyScripts,
                            Put(EmptyCache, 1, SlideContent), EmptyCache, null)
  /\ vx = IdleExport /\ zx = IdleExport
  /\ playback = [IdlePlayback EXCEPT !.triggered = TRUE]
  /\ unreleased = 0
  /\ spoken = Put(EmptyScripts, 1, EnglishScript)
  /\ retry = IdleRetry /\ detection = IdleDetection /\ narrative = IdleNarrative

\* the session goes on from there with the budget of the user anew
InitNarrated == FirstSlideNarrated /\ clicks = 0

\* the viewer stays in the document: no upload and no export
NextNarrated ==
  \/ ClickAudio /\ \E p \in 1..MaxPages : handlePageChange(p)
  \/ FreeAudio /\ \E t \in timers : CachedScriptTimer(t)
  \/ Free /\ \E e \in extractions, c \in InteractiveExtractResults : ExtractionDone(e, c)
  \/ Free /\ \E r \in contentPrefetch : PrefetchTimeoutFired(r)
  \/ Free /\ \E r \in contentPrefetch, c \in InteractiveExtractResults : NextContentDone(r, c)
  \/ ClickAudio /\ ClickGenerate
  \/ FreeAudio /\ \E s \in ScriptAnswers(gen.page) : GenScriptOk(s)
  \/ Free /\ \E error \in GenErrors : GenFail(error)
  \/ FreeAudio /\ PlayTimerFired
  \/ Async /\ \E ok \in BOOLEAN : PlayAudioFetched(ok)
  \/ Free /\ \E t \in tasks, c \in InteractiveExtractResults : PrefetchContentDone(t, c)
  \/ Free /\ \E t \in tasks : \E s \in ScriptAnswers(Head(t.targets)) : PrefetchScriptOk(t, s)
  \/ FreeHandles /\ \E t \in tasks : PrefetchAudioOk(t)
  \/ Free /\ \E t \in tasks : PrefetchFail(t)

SpecNarrated == InitNarrated /\ [][NextNarrated]_vars

(* ------------------- the context window of a request ------------------- *)
\* .sort(([a], [b]) => parseInt(a) - parseInt(b)) on the page numbers
RECURSIVE SortPages(_)
SortPages(pages) ==
  IF pages = <<>> THEN <<>>
  ELSE LET rest == SortPages(Tail(pages))
           before == SelectSeq(rest, LAMBDA q : q - Head(pages) < 0)
           after == SelectSeq(rest, LAMBDA q : ~(q - Head(pages) < 0))
       IN before \o <<Head(pages)>> \o after

previousContext_FirstThree(history, pageNumber) ==
  LET entries == SelectSeq([i \in Pages |-> i], LAMBDA p : HasText(history[p]))
      filtered == SelectSeq(entries, LAMBDA p : p < pageNumber)
      sorted == SortPages(filtered)
      sliced == IF Len(sorted) <= 3 THEN sorted ELSE SubSeq(sorted, 1, 3)
  IN [i \in DOMAIN sliced |-> [page |-> sliced[i], script |-> history[sliced[i]]]]

\* Object.entries(history).filter(page < pageNumber).sort(by page).slice(-3)
\* .map(([page, script]) => `Slide ${page}: ${script}`): the entries of an
\* object with integer keys come in ascending key order
previousContext(history, pageNumber) ==
  LET entries == SelectSeq([i \in Pages |-> i], LAMBDA p : HasText(history[p]))
      filtered == SelectSeq(entries, LAMBDA p : p < pageNumber)
      sorted == SortPages(filtered)
      sliced == IF Len(sorted) <= 3 THEN sorted
                ELSE SubSeq(sorted, Len(sorted) - 2, Len(sorted))
  IN [i \in DOMAIN sliced |-> [page |-> sliced[i], script |-> history[sliced[i]]]]

\* ScriptHistory holds the script that was on display when a slide was left
InitContext ==
  /\ FreshApp /\ retry = IdleRetry /\ detection = IdleDetection
  /\ \E history \in [Pages -> {EmptyScript, EnglishScript, DutchScript}] :
       narrative = [IdleNarrative EXCEPT !.history = history]

\* generateVoiceover builds the context of the slide on display
GenerateContext(currentPage_) ==
  /\ narrative.pc = "idle"
  /\ narrative' = [narrative EXCEPT
                     !.pc = "built", !.kind = "generate", !.page = currentPage_,
                     !.context = previousContext(narrative.history, currentPage_)]
  /\ UNCHANGED <<appVars, uiVars, workVars, playback, unreleased, spoken, clicks, retry, detection>>

\* the prefetch effect of slide currentPage_, whose script is generatedScript_,
\* builds the context of nextPage
PrefetchContext(currentPage_, generatedScript_, nextPage) ==
  /\ narrative.pc = "idle"
  /\ HasText(generatedScript_)
  /\ LET contextHistory == Put(narrative.history, currentPage_, generatedScript_)
     IN narrative' = [narrative EXCEPT
                        !.pc = "built", !.kind = "prefetch", !.page = nextPage,
                        !.current = currentPage_, !.script = generatedScript_,
                        !.context = previousContext(contextHistory, nextPage)]
  /\ UNCHANGED <<appVars, uiVars, workVars, playback, unreleased, spoken, clicks, retry, detection>>

\* generateScriptForSlide of the video export and of the ZIP export
ExportContext(kind, pageNumber) ==
  /\ narrative.pc = "idle"
  /\ narrative' = [narrative EXCEPT
                     !.pc = "built", !.kind = kind, !.page = pageNumber,
                     !.context = previousContext(narrative.history, pageNumber)]
  /\ UNCHANGED <<appVars, uiVars, workVars, playback, unreleased, spoken, clicks, retry, detection>>

NextContext ==
  \/ \E p \in Pages : GenerateContext(p)
  \/ \E p \in Pages, s \in {EnglishScript, DutchScript} :
       \E n \in {p + 1, p + 2} \cap Pages : PrefetchContext(p, s, n)
  \/ \E kind \in {"video", "zip"}, p \in Pages : ExportContext(kind, p)

SpecContext == InitContext /\ [][NextContext]_vars

(* ------------------------------ claims -------------------------------- *)
\* a step in which a task of the prefetch effect gets a result
PrefetchResult ==
  \/ \E t \in tasks, c \in InteractiveExtractResults : PrefetchContentDone(t, c)
  \/ \E t \in tasks, s \in ScriptTexts : PrefetchScriptOk(t, s)
  \/ \E t \in tasks : PrefetchAudioOk(t)

\* C1: a prefetch task that gets a result while the export-in-progress flag
\* is set writes nothing to ContentCache, ScriptCache or AudioCache.
C1_PrefetchSilentDuringExport ==
  [][(isExporting /\ PrefetchResult)
       => UNCHANGED <<contentCache, scriptCache, audioCache>>]_vars

\* C2: once PresentationLanguage has a value, no step of the same document
\* assigns it another value (it is only reset by loading a document).
C2_LanguageAssignedOnce ==
  [][presentationLanguage # null
       => presentationLanguage' \in {presentationLanguage, null}]_vars

\* C3: a step that takes PresentationLanguage from a concrete value back to
\* unset is a handleFileChange step (the load of a new document).
C3_LanguageResetOnlyByFileChange ==
  [][(presentationLanguage # null /\ presentationLanguage' = null)
       => handleFileChange]_vars

\* C3: a running export had found the language unset and had detected and
\* set it ("english" is no default), then a new document was loaded
C3_Witness ==
  /\ loading /\ presentationLanguage = null
  /\ vx.pc \in ExportRunning /\ vx.lang = null /\ vx.exportLanguage = "english"

\* the script-generation requests for slide p that are in flight: the one of
\* generateVoiceover, those of prefetch tasks, those of the two exports
InFlightScript(p) ==
  (IF gen.pc = "script" /\ ~gen.stale /\ gen.page = p THEN 1 ELSE 0)
  + Cardinality({t \in tasks : t.pc = "script" /\ Head(t.targets) = p})
  + (IF vx.pc = "script" /\ vx.pageNum = p THEN 1 ELSE 0)
  + (IF zx.pc = "script" /\ zx.pageNum = p THEN 1 ELSE 0)

\* C4: for every slide index at most one script-generation request is in
\* flight, interactive generation, prefetch tasks and exports taken together.
C4_OneScriptRequestPerSlide ==
  \A p \in Pages : InFlightScript(p) <= 1

\* C5: a handleFileChange step leaves ContentCache, ScriptCache and
\* AudioCache empty all at once (no slide index written before is present in
\* any of them), the current page 1, and ScriptHistory, PresentationContext
\* and PresentationLanguage reset.
C5_FileChangeResetsDocumentState ==
  [][handleFileChange =>
       /\ \A p \in Pages : /\ ~Truthy(contentCache'[p])
                            /\ ~HasText(scriptCache'[p])
                            /\ ~Truthy(audioCache'[p])
       /\ currentPage' = 1
       /\ scriptHistory' = EmptyScripts
       /\ presentationContext' = ""
       /\ presentationLanguage' = null]_vars

\* C5: a new document was loaded in a session in which the user was on the
\* second slide (two clicks) and all three caches had entries, as the
\* closure of the export started before the load shows
C5_Witness ==
  /\ loading /\ clicks = 2 /\ currentPage = 1
  /\ vx.pc \in ExportRunning
  /\ Truthy(vx.contentSnap[1]) /\ HasText(vx.scriptSnap[2]) /\ Truthy(vx.audioSnap[2])
  /\ contentCache = EmptyCache /\ scriptCache = EmptyScripts /\ audioCache = EmptyCache
  /\ scriptHistory = EmptyScripts /\ presentationContext = ""

\* the step in which an export turns to an external call for its slide: the
\* extraction, the script request, or the synthesis after the script step
\* (the synthesis that replaces a cached audio that could not be read is not
\* counted)
StartsCall(x, y, pc) ==
  /\ y.pc = pc
  /\ \/ x.pc # pc
     \/ x.pageNum # y.pageNum
  /\ pc = "synth" => x.pc # "audioFetch"

\* C6: an export turns to the extraction, the script request or the
\* synthesis for a slide only if ContentCache, ScriptCache or AudioCache,
\* respectively, has no entry for that slide at that moment.
C6_ExportReusesCacheEntries ==
  [][\A x \in {<<vx, vx'>>, <<zx, zx'>>} :
       /\ StartsCall(x[1], x[2], "extract") => ~Truthy(contentCache[x[2].pageNum])
       /\ StartsCall(x[1], x[2], "script") => ~HasText(scriptCache[x[2].pageNum])
       /\ StartsCall(x[1], x[2], "synth") => ~Truthy(audioCache[x[2].pageNum])]_vars

\* the slide indices held by a list of an export
Indices(list) == {list[i] : i \in DOMAIN list}

Ascending(list) == \A i, j \in DOMAIN list : i < j => list[i] < list[j]

\* pcs of an export whose slide loop has ended
LoopEnded == {"mux", "pack", "complete", "done", "failed"}

\* the slides 1..last are each in exactly one of the two lists of export x,
\* and the lists hold nothing else
Partitioned(x, last) ==
  /\ Indices(x.slideData) \cup Indices(x.failedSlides) = 1..last
  /\ Indices(x.slideData) \cap Indices(x.failedSlides) = {}
  /\ Len(x.slideData) + Len(x.failedSlides) = last

\* C7: an export takes the slides in ascending order: while it works on
\* slide k exactly the slides before k have been put, each into exactly one
\* of the result list and the failed list; when the loop has ended this
\* holds for all slides 1..totalSlides, the result list is ascending and
\* its length is totalSlides minus the number of failed slides.
C7_OrderedPartition ==
  \A x \in {vx, zx} :
    /\ Ascending(x.slideData)
    /\ Ascending(x.failedSlides)
    /\ x.pc \in ExportInLoop =>
         Partitioned(x, IF x.pc = "delay" THEN x.pageNum ELSE x.pageNum - 1)
    /\ (x.pc \in LoopEnded /\ x.alert.text # EncodingFailed) =>
         /\ Partitioned(x, x.total)
         /\ Len(x.slideData) = x.total - Len(x.failedSlides)

\* C7: the loop of the video export has ended with a failed slide between
\* two slides that succeeded
C7_Witness ==
  /\ vx.pc = "mux"
  /\ \E i, j \in DOMAIN vx.slideData, k \in DOMAIN vx.failedSlides :
       vx.slideData[i] < vx.failedSlides[k] /\ vx.failedSlides[k] < vx.slideData[j]

\* C8: a failed slide does not end the video export: the export fails only
\* after its last slide was attempted and every slide failed, and a slide
\* that failed is behind the export as soon as the next step is taken; for
\* a document of 5 slides of which only slide 3 failed, the muxer gets the
\* slides 1, 2, 4, 5 in this order and the report says 4 included and
\* slide 3 skipped.
C8_FailedSlideIsSkipped ==
  /\ (vx.pc = "failed" /\ vx.alert.text = NoSlidesProcessed) =>
       /\ Len(vx.failedSlides) = vx.total
       /\ vx.slideData = <<>>
  /\ (vx.pc \in ExportInLoop /\ vx.pc # "delay") =>
       \A k \in Indices(vx.failedSlides) : k < vx.pageNum
  /\ (vx.pc \in {"mux", "complete", "done"} /\ vx.total = 5
        /\ vx.failedSlides = <<3>>) =>
       /\ vx.slideData = <<1, 2, 4, 5>>
       /\ vx.pc # "mux" => (vx.alert.included = 4 /\ vx.alert.skipped = <<3>>)

\* C8: the video of a document of 5 slides was exported although slide 3
\* had no cached content and its extraction failed (ContentCache has still
\* no entry for it)
C8_Witness ==
  /\ vx.pc = "complete" /\ vx.total = 5
  /\ vx.alert = [text |-> Exported, included |-> 4, skipped |-> <<3>>]
  /\ vx.slideData = <<1, 2, 4, 5>>
  /\ ~loading /\ ~Truthy(contentCache[3])

\* C9: an export whose loop has ended reports 'No slides could be processed'
\* if and only if its result list is empty; with a slide in the result list
\* it is at the packaging step or beyond it.
C9_NoSlidesExactlyWhenNoneSucceeded ==
  \A x \in {vx, zx} :
    (x.pc \in LoopEnded /\ x.alert.text # EncodingFailed) =>
      /\ (x.pc = "failed" /\ x.alert.text = NoSlidesProcessed) <=> x.slideData = <<>>
      /\ x.slideData # <<>> => x.pc \in {"mux", "pack", "complete", "done"}

\* C9: an export of a document of several slides has ended with
\* 'No slides could be processed' after every slide had failed
C9_Witness ==
  \E x \in {vx, zx} :
    /\ x.pc = "failed" /\ x.alert.text = NoSlidesProcessed
    /\ x.total >= 2 /\ Len(x.failedSlides) = x.total

\* a step of a cancelled export that goes on with its work: it turns to
\* another slide, hands its result list to the muxer or the packager, or
\* writes a cache or the language
GoesOn(x, y) ==
  \/ y.pageNum # x.pageNum
  \/ y.pc \in {"mux", "pack"} /\ x.pc # y.pc
  \/ y # x /\ <<contentCache, scriptCache, audioCache, presentationLanguage>>'
              # <<contentCache, scriptCache, audioCache, presentationLanguage>>

\* C10: once the user has cancelled a running export (its flag is cleared
\* while handleExport has not returned), that export takes up no further
\* slide, writes no cache and no language, and hands nothing to the muxer
\* or the packager.
C10_CancelStopsExport ==
  [][/\ (vx.pc \in ExportRunning /\ ~isExporting) => ~GoesOn(vx, vx')
     /\ (zx.pc \in ExportRunning /\ ~zx.exporting) => ~GoesOn(zx, zx')]_vars

\* the delays waited after k failed calls: 2000 * 2^i for i = 0..k-1
ExpectedDelays(k) == [i \in 1..k |-> 2000 * 2 ^ (i - 1)]

\* C11: retryWithBackoff calls the operation at most 5 times; when it
\* returns after k failed calls (k < 5) it has made k + 1 calls, has waited
\* 2000 * 2^i ms after the i-th failure (2000, 4000, 8000, 16000 for k = 4)
\* and returns the value of the call that succeeded; when it throws, all 5
\* calls failed, four delays were waited and the error is the one of the
\* fifth call.
C11_RetryPolicy ==
  LET k == Len(retry.thrown)
  IN /\ retry.calls <= 5
     /\ retry.pc = "returned" =>
          /\ k < 5 /\ retry.calls = k + 1
          /\ retry.delays = ExpectedDelays(k)
          /\ k = 4 => retry.delays = <<2000, 4000, 8000, 16000>>
          /\ retry.result = <<"value", k + 1>>
     /\ retry.pc = "threw" =>
          /\ k = 5 /\ retry.calls = 5
          /\ retry.delays = <<2000, 4000, 8000, 16000>>
          /\ retry.result = retry.thrown[5]
     /\ retry.pc \in {"call", "sleep"} =>
          /\ retry.calls = k /\ k < 5
          /\ retry.delays = ExpectedDelays(IF retry.pc = "sleep" THEN k - 1 ELSE k)

\* C11: the operation failed four times and succeeded at the fifth call
C11_Witness ==
  /\ retry.pc = "returned" /\ Len(retry.thrown) = 4 /\ retry.calls = 5
  /\ retry.delays = <<2000, 4000, 8000, 16000>>

\* C12: when the key or the voice id of the synthesizer is missing,
\* generateAudioForScript makes one attempt and fails with the
\* configuration error: no second call, no back-off delay.
C12_ConfigErrorNotRetried ==
  (retry.fn = "generateAudioForScript" /\ ~retry.configured) =>
    /\ retry.calls <= 1
    /\ retry.pc # "sleep" /\ retry.delays = <<>>
    /\ retry.calls = 1 => (retry.pc = "threw" /\ retry.result = <<"notConfigured", 1>>)

\* C13: when a call of extractContentForPage or generateScriptForSlide ends
\* with a semantic failure (content filtered with nothing to fall back on,
\* empty answer, empty script), the helper fails after this single attempt:
\* the back-off policy makes no further call.
C13_SemanticFailureNotRetried ==
  \A i \in DOMAIN retry.thrown :
    retry.thrown[i][1] \in SemanticErrors =>
      /\ retry.calls = i
      /\ retry.pc = "threw" /\ retry.result = retry.thrown[i]

\* the tokens of a text: its pieces between whitespace
Tokens(text) == SelectSeq(text, LAMBDA w : w # "")

\* the tokens that match the Dutch word list after lower-casing and the
\* removal of one trailing punctuation mark
DutchTokens(text) ==
  Cardinality({i \in DOMAIN Tokens(text) :
                 StripPunctuation(ToLowerCase(Tokens(text)[i])) \in dutchWords})

\* at least three Dutch tokens, at a density of at least 20% of the tokens
AboveThreshold(text) ==
  /\ DutchTokens(text) >= 3
  /\ DutchTokens(text) * 5 >= Len(Tokens(text))

\* C14: isDutchText returns true for every text with at least 3 tokens that
\* match the Dutch word list at a density of at least 20% of its tokens, and
\* false for every empty, whitespace-only or below-threshold text.
C14_DutchAtThreshold ==
  (detection.pc = "classified" /\ Len(detection.scripts) = 1)
    => (detection.isDutch[1] <=> AboveThreshold(detection.scripts[1]))

\* the samples of the list that are classified, with the given verdict
Classified(verdict) ==
  {i \in DOMAIN detection.scripts :
     Tokens(detection.scripts[i]) # <<>> /\ detection.isDutch[i] = verdict}

\* C15: detectPresentationLanguage returns 'dutch' for the empty list, and
\* for a non-empty list exactly when strictly more of its non-empty samples
\* are classified Dutch than not Dutch; otherwise, ties included, 'english'.
C15_StrictMajority ==
  detection.pc = "returned"
    => /\ detection.language \in {"dutch", "english"}
       /\ detection.language = "dutch"
            <=> \/ detection.scripts = <<>>
                \/ Cardinality(Classified(TRUE)) > Cardinality(Classified(FALSE))

\* two Dutch samples against one English sample gave Dutch
C15_Witness ==
  /\ detection.pc = "returned"
  /\ detection.scripts = <<DutchScript, EnglishScript, DutchScript>>
  /\ detection.isDutch = <<TRUE, FALSE, TRUE>>
  /\ detection.language = "dutch"

\* a script for slide p has been generated: it is displayed, kept in the
\* history or cached
Narrated(p) ==
  \/ currentPage = p /\ HasText(generatedScript)
  \/ HasText(scriptHistory[p])
  \/ HasText(scriptCache[p])

\* C16: in a document of three slides whose scripts are all Dutch, once the
\* scripts of slides 1-3 have been generated the presentation language is
\* Dutch, and every audio synthesized for its slides is made by the Dutch
\* synthesizer.
C16_DutchDeckSpokenInDutch ==
  (pdfFile = "file" /\ totalPages = 3)
    => /\ \A p \in 1..3 : audioCache[p] \in {NoAudio, "dutch"}
       /\ (\A p \in 1..3 : Narrated(p)) => presentationLanguage = "dutch"

\* a video export that started with the language unset and without a cached
\* script for the slides the language is detected from
BootstrapRun ==
  /\ vx.pc \in ExportRunning
  /\ vx.lang = null
  /\ \A i \in 1..Min(getSlidesToAnalyze(vx.total), vx.total) : ~HasText(vx.scriptSnap[i])

\* C17: a video export that starts with the language unset and no script
\* cached for the first min(totalSlides, 3) slides resolves the language from
\* the one script it generates for slide 1, and synthesizes every audio,
\* that of slide 1 included, with the synthesizer of that language.
C17_BootstrapFromFirstScript ==
  [][BootstrapRun =>
       /\ (vx.pc = "script" /\ vx.pageNum = 1 /\ vx'.pc = "sleep2")
            => /\ presentationLanguage' = detectPresentationLanguage(<<scriptCache'[1]>>)
               /\ vx'.exportLanguage = presentationLanguage'
       /\ (vx.pc = "synth" /\ vx'.pc = "render" /\ HasText(scriptCache[1]))
            => audioCache'[vx.pageNum] = detectPresentationLanguage(<<scriptCache[1]>>)]_vars

\* such an export generated an English script for slide 1 and a Dutch one for
\* slide 2, and synthesized the audio of both slides in English
C17_Witness ==
  /\ BootstrapRun
  /\ vx.pageNum = 2 /\ vx.pc = "render"
  /\ scriptCache[1] = EnglishScript /\ scriptCache[2] = DutchScript
  /\ vx.audioSnap[1] = NoAudio /\ vx.audioSnap[2] = NoAudio
  /\ audioCache[1] = "english" /\ audioCache[2] = "english"
  /\ presentationLanguage = "english"

\* an export, video or ZIP, is running and shows its overlay
ExportInProgress ==
  \/ isExporting /\ vx.pc \in ExportRunning
  \/ zx.exporting /\ zx.pc \in ExportRunning

\* C18: while an export (video or ZIP) is in progress no prefetch is started:
\* no step adds a prefetch task for the slides ahead or sends the request of
\* a next-slide content prefetch, a step that completes a script generation
\* included.
C18_NoPrefetchStartsDuringExport ==
  [][(ExportInProgress /\ ExportInProgress')
       => /\ Cardinality(tasks') <= Cardinality(tasks)
          /\ \A r \in contentPrefetch' \ contentPrefetch : r.pc # "extract"]_vars

\* C19: the audio assets held in AudioCache for the loaded document were all
\* synthesized with the synthesizer of one language, and once the
\* presentation language is resolved that language is the resolved one.
C19_OneLanguagePerDocument ==
  \A p \in Pages :
    audioCache[p] # NoAudio
      => /\ \A q \in Pages : audioCache[q] \in {NoAudio, audioCache[p]}
         /\ presentationLanguage \in {null, audioCache[p]}

\* C20: within one loaded document (in a step other than the load of a new
\* document, which clears the caches) a ContentCache or ScriptCache entry
\* that exists is not replaced by a different value.
C20_CacheEntriesWrittenOnce ==
  [][~handleFileChange
       => \A p \in Pages :
            /\ Truthy(contentCache[p]) => contentCache'[p] = contentCache[p]
            /\ HasText(scriptCache[p]) => scriptCache'[p] = scriptCache[p]]_vars

\* the slides a prefetch triggered on slide t.cur of t.total may work on
PrefetchWindow(t) == {p \in Pages : t.cur < p /\ p <= t.cur + 2 /\ p <= t.total}

\* the pages whose ContentCache, ScriptCache or AudioCache entry changes
WrittenPages ==
  {p \in Pages : \/ contentCache'[p] # contentCache[p]
                 \/ scriptCache'[p] # scriptCache[p]
                 \/ audioCache'[p] # audioCache[p]}

\* C21: a prefetch triggered while the current slide is p works only on the
\* slides p+1 and p+2 that exist: a task is started for the current page and
\* page count, all its targets lie in that window (so none when p is the last
\* slide), and a result of a task is written for its target in the window.
C21_PrefetchWindow ==
  [][/\ \A t \in tasks' : \A i \in DOMAIN t.targets : t.targets[i] \in PrefetchWindow(t)
     /\ Cardinality(tasks') > Cardinality(tasks)
          => \A t \in tasks' \ tasks : t.cur = currentPage' /\ t.total = totalPages'
     /\ PrefetchResult
          => \A p \in WrittenPages :
               \E t \in tasks : p = Head(t.targets) /\ p \in PrefetchWindow(t)]_vars

\* the prefetch started on slide 1 of 3 has cached the script of slide 2 and
\* of slide 3 and is about to synthesize the audio of slide 3
C21_Witness ==
  /\ currentPage = 1 /\ totalPages = 3
  /\ \E t \in tasks : t.cur = 1 /\ t.targets = <<3>> /\ t.pc = "audio"
  /\ HasText(scriptCache[2]) /\ HasText(scriptCache[3]) /\ ~HasText(scriptCache[1])
  /\ \A p \in Pages : p > 3 => ~Truthy(contentCache[p])

\* a step in which a step of a slide's prefetch fails: the extraction
\* resolves with an error text, or the script or audio request fails
PrefetchFailure ==
  \/ \E t \in tasks : PrefetchContentDone(t, ErrorMarker)
  \/ \E t \in tasks : PrefetchFail(t)

C24_NoUnreleasedHandle == unreleased = 0

\* C25: the narrative context of a request for slide n consists of the
\* scripts of at most 3 history slides with an index below n, those with the
\* largest such indices, in ascending order of index; the history of a
\* prefetch started on slide p includes the script just completed for p.
C25_ContextWindow ==
  narrative.pc = "built" =>
    LET ctx == narrative.context
        n == narrative.page
        used == IF narrative.kind = "prefetch"
                THEN [narrative.history EXCEPT ![narrative.current] = narrative.script]
                ELSE narrative.history
        prior == {q \in Pages : q < n /\ used[q] # <<>>}
        chosen == {ctx[i].page : i \in DOMAIN ctx}
    IN /\ Len(ctx) = IF Cardinality(prior) < 3 THEN Cardinality(prior) ELSE 3
       /\ chosen \subseteq prior
       /\ Cardinality(chosen) = Len(ctx)
       /\ \A q \in prior \ chosen : \A c \in chosen : q < c
       /\ \A i, j \in DOMAIN ctx : i < j => ctx[i].page < ctx[j].page
       /\ \A i \in DOMAIN ctx : ctx[i].script = used[ctx[i].page]
       /\ narrative.kind = "prefetch" =>
            \E i \in DOMAIN ctx :
              ctx[i] = [page |-> narrative.current, script |-> narrative.script]

\* a prefetch whose history has more than 3 slides below the target, and
\* holds an older script under the index of the slide on display
C25_Witness ==
  /\ narrative.pc = "built" /\ narrative.kind = "prefetch"
  /\ Len(narrative.context) = 3
  /\ Cardinality({q \in Pages : q < narrative.page /\ narrative.history[q] # <<>>}) > 3
  /\ narrative.history[narrative.current] # narrative.script

\* the context-summary request of slide 1 ended and no summary was stored
ContextCallFailed ==
  /\ gen.pc = "context" /\ gen'.pc = "idle"
  /\ presentationContext' = presentationContext

\* C26: a failure of the context call of slide 1, by a non-success response
\* or by a transport error, is not fatal: the primary script is displayed,
\* no error is surfaced and PresentationContext stays empty.
C26_ContextFailureNonFatal ==
  [][ContextCallFailed =>
       /\ generatedScript' = gen.script
       /\ gen'.alert = NoGenAlert
       /\ presentationContext' = ""]_vars

\* C27: all prefetch operations are cancelled when the user navigates away:
\* after a page change a prefetch task started for the slide that was current
\* before writes no cache entry and starts no further extraction, script
\* request or audio request.
C27_PrefetchCancelledOnNavigation ==
  [][PrefetchResult =>
       \A t \in tasks \ tasks' :
         t.cur # currentPage => WrittenPages = {} /\ tasks' \subseteq tasks]_vars

C29_FallbackAgreesWithClassifier ==
  detection.pc = "fallback" =>
    \A i \in DOMAIN detection.scripts :
      /\ detection.prefetch[i] = isDutchText(detection.scripts[i])
      /\ detection.zip[i] = isDutchText(detection.scripts[i])

\* C30: a non-empty displayed script is the script generated or cached for
\* the current slide: a generation, or a 50 ms cached-script timer, started
\* for a page the user has left never sets the displayed script, so
\* handlePageChange never stores a script in ScriptHistory under the index
\* of another slide.
C30_DisplayedScriptOfCurrentSlide ==
  [][(HasText(generatedScript') /\ generatedScript' # generatedScript)
       => /\ \A t \in timers \ timers' : t.page = currentPage
          /\ (gen.pc # "idle" /\ gen'.pc = "idle") => gen.page = currentPage]_vars

\* C31: after a new document is loaded no task started under the previous
\* document writes into ContentCache, ScriptCache, AudioCache, the displayed
\* script, PresentationContext or PresentationLanguage: a generation or an
\* extraction of the previous document that ends leaves all of them as they
\* are.
C31_NoWriteFromPreviousDocument ==
  [][(\/ gen.stale /\ gen.pc # "idle" /\ gen'.pc = "idle"
      \/ \E e \in extractions \ extractions' : e.stale)
       => UNCHANGED <<contentCache, scriptCache, audioCache, generatedScript,
                      presentationContext, presentationLanguage>>]_vars

\* C32: for every slide n, whenever ScriptCache[n] and AudioCache[n] are both
\* present, the cached audio was synthesized from exactly the cached script
\* text.
C32_CachedAudioOfCachedScript ==
  \A n \in Pages :
    (HasText(scriptCache[n]) /\ Truthy(audioCache[n])) => spoken[n] = scriptCache[n]

\* the state the narrated session starts in, as the whole program reaches it
C32_SessionReached == FirstSlideNarrated /\ clicks = 1

\* C33: at most one export executes its slide loop at any time: the loops of
\* a video export and of a ZIP export never run together, and the shared
\* export-in-progress flag is true for as long as the loop of a video export
\* is executing, so that no export can be started meanwhile.
C33_OneExportLoop ==
  /\ ~(vx.pc \in ExportInLoop /\ zx.pc \in ExportInLoop)
  /\ vx.pc \in ExportInLoop => isExporting

\* a step that enters a value into ContentCache, ScriptCache or AudioCache
WritesEntry ==
  \E p \in Pages : \/ contentCache'[p] # contentCache[p] /\ contentCache'[p] # ""
                   \/ scriptCache'[p] # scriptCache[p] /\ scriptCache'[p] # <<>>
                   \/ audioCache'[p] # audioCache[p] /\ audioCache'[p] # ""

\* the caches a step changes
ChangedCaches ==
  {i \in 1..3 : <<contentCache, scriptCache, audioCache>>'[i]
                  # <<contentCache, scriptCache, audioCache>>[i]}

\* C34: concurrent cache writers never lose each other's updates: a write
\* for slide n leaves every other slide's entry of that cache, and the other
\* two caches, unchanged, so entries written for different slides in any
\* interleaving are all present afterwards.
C34_WritesKeepOtherEntries ==
  [][WritesEntry => Cardinality(WrittenPages) = 1 /\ Cardinality(ChangedCaches) = 1]_vars

\* the extraction of slide 1 and the prefetch of slide 2 have both written
\* ContentCache, and the prefetch of slide 2 has written ScriptCache
C34_Witness ==
  /\ Truthy(contentCache[1]) /\ Truthy(contentCache[2])
  /\ HasText(scriptCache[2])
  /\ \E t \in tasks : t.pc = "audio" /\ Head(t.targets) = 2

\* C35: ContentCache never stores an error or placeholder marker: an entry is
\* created only from a successful extraction.
C35_NoMarkerInContentCache ==
  \A p \in Pages : ~IncludesError(contentCache[p])

\* the samples of the language vote taken from slide 1: the title slide is
\* the one slide of a document that is narrated in English
SamplesOfFirstSlide ==
  {i \in DOMAIN scriptsForAnalysis : scriptsForAnalysis[i] \in ScriptAnswers(1)}

\* C36: the scripts counted toward the min(totalSlides, 3) samples of the
\* interactive language vote come from distinct slides: regenerating the
\* script of a slide already sampled adds no further sample, so slide 1
\* contributes at most one sample.
C36_SamplesFromDistinctSlides ==
  Cardinality(SamplesOfFirstSlide) <= 1

\* C37: whenever a video export synthesizes audio for a slide, the language
\* it uses has been obtained by resolution and presentationLanguage is set
\* at that moment: no synthesis with the unresolved default language, also
\* when slide 1 fails.  Stated for an export whose overlay is still up (not
\* cancelled), so that no other document can have been uploaded meanwhile.
C37_SynthesisLanguageResolved ==
  [][(isExporting /\ vx.pc = "synth" /\ vx'.pc = "render")
       => presentationLanguage # null]_vars

\* a handleExport() call between its first line and its outcome
VideoRunning == vx.pc \in ExportRunning
ZipRunning == zx.pc \in ExportRunning

\* C38: assuming every external call (model, synthesizer, renderer, timer)
\* eventually returns, every started export eventually leaves the running
\* state, complete or failed, after at most totalSlides loop iterations (each
\* iteration ends with one slide included or skipped), and the
\* export-in-progress flag eventually becomes false again.
C38_ExportTerminates ==
  /\ [](/\ Len(vx.slideData) + Len(vx.failedSlides) <= vx.total
        /\ Len(zx.slideData) + Len(zx.failedSlides) <= zx.total
        /\ vx.pageNum <= vx.total /\ zx.pageNum <= zx.total)
  /\ VideoRunning ~> vx.pc \in {"complete", "failed"}
  /\ ZipRunning ~> zx.pc \in {"complete", "failed"}
  /\ isExporting ~> ~isExporting
  /\ zx.exporting ~> ~zx.exporting

\* a video export of a document of several slides went through its whole loop
\* with a skipped slide, reported, and its flag was cleared by the timer
C38_Witness ==
  /\ vx.pc = "done" /\ ~isExporting /\ vx.total >= 2
  /\ Len(vx.slideData) + Len(vx.failedSlides) = vx.total
  /\ Len(vx.failedSlides) > 0

\* text.trim(): the text without the whitespace before its first and after
\* its last word, that is without the empty pieces at its two ends
TrimText(text) ==
  LET filled == {i \in DOMAIN text : text[i] # ""}
  IN IF filled = {} THEN <<>>
     ELSE SubSeq(text, CHOOSE i \in filled : \A j \in filled : i <= j,
                       CHOOSE i \in filled : \A j \in filled : i >= j)

\* C39: isDutchText is insensitive to surrounding whitespace: for every text
\* t, isDutchText(t) equals isDutchText of t with leading and trailing
\* whitespace removed (the empty tokens produced by splitting do not count
\* toward the token total).
C39_IsDutchIgnoresSurroundingWhitespace ==
  detection.pc = "classified" =>
    \A i \in DOMAIN detection.scripts :
      detection.isDutch[i] = isDutchText(TrimText(detection.scripts[i]))

====
